---- MODULE Spec2Model ----
(***************************************************************************)
(* Model of claude-code-costs: batch ingestion of JSONL conversation logs  *)
(* (ConversationParser, ConversationAnalyzer) and live monitoring          *)
(* (ConversationMonitor).                                                  *)
(*                                                                         *)
(* Conventions.                                                            *)
(*  - A JS string is a sequence of one-character strings; the empty        *)
(*    sequence is the empty (falsy) string and also stands for an absent   *)
(*    string field, which the code tests for truthiness only.              *)
(*  - Identifiers (model, sessionId, tool ids) are TLA+ strings, "" when   *)
(*    absent.                                                              *)
(*  - A timestamp is a whole number of minutes; NoTs is an absent one.     *)
(*  - In the parser and the monitor money is exact: a pricing rate is held *)
(*    in hundredths of a dollar per million tokens and a cost in units of  *)
(*    1e-8 dollar, so that tokens * rate / 1000000 dollars is the integer  *)
(*    tokens * rate. The sums of the analyzer are doubles (see Number).    *)
(*  - A burn rate tokens / timeDiff is held as the pair num / den.         *)
(***************************************************************************)
EXTENDS Integers, Sequences, FiniteSets, TLC

VARIABLES
    mode,           \* "idle", "batch", "agg", "live", "alert", "pricing", "ingest", ...: which
                    \* part of the program has run; "exited" once an uncaught
                    \* exception has ended the process
    thresholds,     \* configManager.getAlertThresholds(): config.alerts
    input,          \* what the run is given from outside: the arguments of a call
                    \* that is studied on its own, the projects directory that
                    \* analyzeAllConversations lists, the content of the config file
    processedCount, \* processedCount of analyzeAllConversations (line 24)
    diagnostics,    \* what analyzeAllConversations wrote with console.error
    heap,           \* the objects of the ConfigManager: reference -> object
    defaults,       \* this.defaults of the ConfigManager: a reference
    config,         \* this.config of the ConfigManager: a reference
    stream,         \* readLastLines in progress: lines, remainder, what is left to read
    \* ---- batch ingestion (ConversationParser / ConversationAnalyzer)
    file,           \* the lines of the current file read so far
    pc,             \* "reading": inside the line loop; "parsed": parseJSONLFile
                    \* returned; "done": analyzeAllConversations returned
    conv,           \* the conversation object of parseJSONLFile
    lastTimestamp,  \* the cursor of parseJSONLFile (line 276)
    conversations,  \* ConversationAnalyzer.conversations
    linesRead,      \* lines consumed by this run, over all files
    report,         \* the last call of an aggregation method of the analyzer, or
                    \* of calculateCost on its own, and what it returned
    \* ---- live monitoring (ConversationMonitor)
    appended,          \* the file system: path -> the lines appended to the log
                       \* file since the start
    monitoringEnabled, \* this.monitoringEnabled
    watchers,          \* the keys of this.watchers
    refreshTimer,      \* TRUE while the interval timer is set
    sessionData,       \* this.sessionData: sessionId -> session
    activeSession,     \* this.activeSession, "" for null
    lastCheckedFiles,  \* this.lastCheckedFiles: path -> mtime, 0 for none
    pendingReads,      \* path -> processFileUpdate calls awaiting readLastLines
    outcome            \* what the last handler run did: the events it emitted,
                       \* the watchers it closed, whether an error escaped it

batchVars == <<file, pc, conv, lastTimestamp, conversations, linesRead, report>>

liveVars == <<appended, monitoringEnabled, watchers, refreshTimer, sessionData,
              activeSession, lastCheckedFiles, pendingReads, outcome>>

otherVars == <<thresholds, input, processedCount, diagnostics, heap, defaults, config, stream>>

vars == <<mode, otherVars, batchVars, liveVars>>

\* no input, and no object
NoInput == <<>>
NoObjects == <<>>
NoStream == <<>>

\* ---------------------------------------------------------------- bounds
MaxLines == 3
MaxFiles == 1
MaxAppends == 2

\* ---------------------------------------------------------------- helpers
NoTs == -1

TitleMax == 100

Min(a, b) == IF a < b THEN a ELSE b

Truthy(s) == Len(s) > 0

\* String.prototype.substring(0, n)
Substring(s, n) == SubSeq(s, 1, Min(n, Len(s)))

\* String.prototype.replace(/\n/g, ' ')
ReplaceNewlines(s) == [i \in 1..Len(s) |-> IF s[i] = "\n" THEN " " ELSE s[i]]

WordChars == {"g", "o", "h", "i", "x", "a", "b"}

RECURSIVE WordPrefixLen(_, _)
WordPrefixLen(s, i) ==
    IF i <= Len(s) /\ s[i] \in WordChars THEN WordPrefixLen(s, i + 1) ELSE i - 1

\* text.match(/^\/(\w+)/): the matched command name, <<>> when there is no match
CommandMatch(text) ==
    IF Len(text) >= 2 /\ text[1] = "/" /\ text[2] \in WordChars
    THEN SubSeq(text, 2, WordPrefixLen(text, 2))
    ELSE <<>>

RECURSIVE SumSeq(_)
SumSeq(s) == IF s = <<>> THEN 0 ELSE Head(s) + SumSeq(Tail(s))

\* The sum of the rates num / den of a sequence of samples, as a pair num / den.
RECURSIVE RateSum(_)
RateSum(samples) ==
    IF samples = <<>> THEN [num |-> 0, den |-> 1]
    ELSE LET r == Head(samples).rate
             t == RateSum(Tail(samples))
         IN  [num |-> r.num * t.den + t.num * r.den, den |-> r.den * t.den]

\* ---------------------------------------------------------------- paths
\* A path is a string. path.resolve, path.basename and the string methods of
\* validatePath are POSIX.

\* s.startsWith(prefix)
StartsWith(s, prefix) == Len(prefix) <= Len(s) /\ SubSeq(s, 1, Len(prefix)) = prefix

\* s.includes(pattern)
Includes(s, pattern) ==
    \E i \in 0..(Len(s) - Len(pattern)) : SubSeq(s, i + 1, i + Len(pattern)) = pattern

\* s.toLowerCase(), for the letters that the paths of the model are written with
toLowerCase(s) ==
    [i \in 1..Len(s) |-> CASE s[i] = "E" -> "e" [] s[i] = "P" -> "p" [] OTHER -> s[i]]

\* s.split('/')
RECURSIVE Segments(_)
Segments(s) ==
    IF \A i \in 1..Len(s) : s[i] # "/" THEN <<s>>
    ELSE LET k == CHOOSE i \in 1..Len(s) : s[i] = "/" /\ \A j \in 1..(i - 1) : s[j] # "/"
         IN  <<SubSeq(s, 1, k - 1)>> \o Segments(SubSeq(s, k + 1, Len(s)))

\* the segments of an absolute path without the empty ones and the "." ones, each
\* ".." taking the segment before it away
RECURSIVE NormalizeSegments(_, _)
NormalizeSegments(segs, acc) ==
    IF segs = <<>> THEN acc
    ELSE LET h == Head(segs)
         IN  NormalizeSegments(
                 Tail(segs),
                 IF h = <<>> \/ h = <<".">> THEN acc
                 ELSE IF h = <<".", ".">>
                      THEN IF acc = <<>> THEN acc ELSE SubSeq(acc, 1, Len(acc) - 1)
                      ELSE Append(acc, h))

RECURSIVE JoinSegments(_)
JoinSegments(segs) ==
    IF segs = <<>> THEN <<>> ELSE <<"/">> \o Head(segs) \o JoinSegments(Tail(segs))

\* process.cwd()
Cwd == <<"/", "w">>

\* path.resolve(p)
resolve(p) ==
    LET full == IF Len(p) > 0 /\ p[1] = "/" THEN p ELSE Cwd \o <<"/">> \o p
        segs == NormalizeSegments(Segments(full), <<>>)
    IN  IF segs = <<>> THEN <<"/">> ELSE JoinSegments(segs)

\* path.basename(p)
basename(p) ==
    LET segs == SelectSeq(Segments(p), Truthy)
    IN  IF segs = <<>> THEN <<>> ELSE segs[Len(segs)]

\* what a call gives back: the value it returns, or the message of the Error it
\* throws and the path that the message quotes
Returns(value) == [threw |-> FALSE, value |-> value, message |-> "", path |-> <<>>]
Throws(message, path) == [threw |-> TRUE, value |-> <<>>, message |-> message, path |-> path]

\* security.js line 44
SuspiciousPatterns ==
    { <<".", ".", "/">>, <<".", ".", "\\">>, <<"%", "2", "e", "%", "2", "e">>,
      <<"%", "2", "5", "2", "e", "%", "2", "5", "2", "e">> }

\* SecurityUtils.validatePath(filePath, allowedBase), security.js lines 30-54
validatePath(filePath, allowedBase) ==
    IF filePath = <<>> \/ allowedBase = <<>> THEN Throws("Invalid path parameters", <<>>)
    ELSE LET normalizedPath == resolve(filePath)
             normalizedBase == resolve(allowedBase)
         IN  IF ~StartsWith(normalizedPath, normalizedBase)
             THEN Throws("Path traversal attempt detected", <<>>)
             ELSE IF \E pattern \in SuspiciousPatterns :
                         Includes(toLowerCase(filePath), pattern)
                  THEN Throws("Suspicious path pattern detected", <<>>)
                  ELSE Returns(normalizedPath)

\* ---------------------------------------------------------------- safeMerge
\* A value of JSON.parse: a scalar (truthy or falsy), an array, or an object with
\* its own keys.
Scalar(truthy) == [kind |-> "scalar", truthy |-> truthy, fields |-> <<>>]
Array == [kind |-> "array", truthy |-> TRUE, fields |-> <<>>]
Object(fields) == [kind |-> "object", truthy |-> TRUE, fields |-> fields]

\* security.js line 108
forbidden == {"__proto__", "constructor", "prototype"}

\* SecurityUtils.safeMerge(target, source), security.js lines 101-129, for a
\* target that is an object
RECURSIVE safeMerge(_, _)
safeMerge(target, source) ==
    IF source.kind # "object" THEN target
    ELSE LET merged == {key \in DOMAIN source.fields : key \notin forbidden}
         IN  Object(
                 [key \in DOMAIN target.fields \cup merged |->
                     IF key \notin merged THEN target.fields[key]
                     ELSE IF source.fields[key].kind # "object" THEN source.fields[key]
                     ELSE IF \/ key \notin DOMAIN target.fields
                             \/ ~target.fields[key].truthy
                             \/ target.fields[key].kind = "scalar"
                          THEN source.fields[key]
                          ELSE safeMerge(target.fields[key], source.fields[key])])

\* ---------------------------------------------------------------- pricing
CLAUDE_PRICING ==
    [m \in {"claude-opus-4-20250514", "claude-3-5-haiku-20241022", "default"} |->
        CASE m = "claude-opus-4-20250514" ->
                [input |-> 1500, output |-> 7500, cache_write |-> 1875, cache_read |-> 150]
          [] m = "claude-3-5-haiku-20241022" ->
                [input |-> 80, output |-> 400, cache_write |-> 100, cache_read |-> 8]
          [] OTHER ->
                [input |-> 300, output |-> 1500, cache_write |-> 375, cache_read |-> 30]]

\* CLAUDE_PRICING is an object literal: a property it does not have itself is
\* looked up in Object.prototype, whose members are these
ObjectPrototype ==
    {"constructor", "hasOwnProperty", "isPrototypeOf", "propertyIsEnumerable",
     "toLocaleString", "toString", "valueOf", "__proto__",
     "__defineGetter__", "__defineSetter__", "__lookupGetter__", "__lookupSetter__"}

\* a property that the object does not have
Undefined == -1

\* a member of Object.prototype (a function, or Object.prototype itself for
\* __proto__) is truthy and has none of the four rates
InheritedMember ==
    [input |-> Undefined, output |-> Undefined,
     cache_write |-> Undefined, cache_read |-> Undefined]

\* this.pricing[model] || this.pricing['default']
PricingFor(model) ==
    IF model \in DOMAIN CLAUDE_PRICING THEN CLAUDE_PRICING[model]
    ELSE IF model \in ObjectPrototype THEN InheritedMember
    ELSE CLAUDE_PRICING["default"]

\* the cost that is not a number
NaN == -1

\* tokens * rate: a number times undefined is NaN
Times(tokens, rate) == IF rate = Undefined THEN NaN ELSE tokens * rate

\* a + b: NaN when either is
Plus(a, b) == IF a = NaN \/ b = NaN THEN NaN ELSE a + b

\* a usage that is null or undefined
NoUsage == [input_tokens |-> Undefined]

\* a counter that the usage object does not have
Absent == -1

\* usage.input_tokens || 0
OrZero(counter) == IF counter = Absent THEN 0 ELSE counter

calculateCost(usage, model) ==
    IF usage = NoUsage THEN 0
    ELSE LET pricing == PricingFor(model)
             inputCost == Times(OrZero(usage.input_tokens), pricing.input)
             outputCost == Times(OrZero(usage.output_tokens), pricing.output)
             cacheWriteCost ==
                 Times(OrZero(usage.cache_creation_input_tokens), pricing.cache_write)
             cacheReadCost ==
                 Times(OrZero(usage.cache_read_input_tokens), pricing.cache_read)
         IN  Plus(Plus(Plus(inputCost, outputCost), cacheWriteCost), cacheReadCost)

\* Mutant of calculateTokens: the total leaves the cache reads out.
calculateTokensNoCacheRead(usage) ==
    [total      |-> OrZero(usage.input_tokens) + OrZero(usage.output_tokens)
                    + OrZero(usage.cache_creation_input_tokens),
     input      |-> OrZero(usage.input_tokens),
     output     |-> OrZero(usage.output_tokens),
     cacheWrite |-> OrZero(usage.cache_creation_input_tokens),
     cacheRead  |-> OrZero(usage.cache_read_input_tokens)]

calculateTokens(usage) ==
    [total      |-> OrZero(usage.input_tokens) + OrZero(usage.output_tokens)
                    + OrZero(usage.cache_creation_input_tokens)
                    + OrZero(usage.cache_read_input_tokens),
     input      |-> OrZero(usage.input_tokens),
     output     |-> OrZero(usage.output_tokens),
     cacheWrite |-> OrZero(usage.cache_creation_input_tokens),
     cacheRead  |-> OrZero(usage.cache_read_input_tokens)]

ZeroTokens == [total |-> 0, input |-> 0, output |-> 0, cacheWrite |-> 0, cacheRead |-> 0]

AddTokens(a, b) ==
    [total      |-> a.total + b.total,
     input      |-> a.input + b.input,
     output     |-> a.output + b.output,
     cacheWrite |-> a.cacheWrite + b.cacheWrite,
     cacheRead  |-> a.cacheRead + b.cacheRead]

\* ---------------------------------------------------------------- log lines
\* A usage object; an absent counter reads as 0 (usage.x || 0).
Usage(i, o, cw, cr) ==
    [input_tokens |-> i, output_tokens |-> o,
     cache_creation_input_tokens |-> cw, cache_read_input_tokens |-> cr]

\* The fields of one line that the parser reads. valid = FALSE is a line that
\* JSON.parse rejects. textIsString = FALSE is a text field that is not a string.
BlankLine ==
    [valid |-> TRUE, type |-> "", timestamp |-> NoTs, sessionId |-> "",
     text |-> <<>>, textIsString |-> TRUE,
     summary |-> <<>>, hasMetadata |-> FALSE, thread_summary |-> <<>>, metaSummary |-> <<>>,
     hasMessage |-> FALSE, hasUsage |-> FALSE, usage |-> Usage(0, 0, 0, 0), model |-> "",
     parentUUID |-> "", toolName |-> "", toolId |-> "",
     tool_use_id |-> "", is_error |-> FALSE]

InvalidLine == [BlankLine EXCEPT !.valid = FALSE]

StrThread == <<"T", "\n", "t">>
StrMeta == <<"M">>
StrSummary == <<"S">>
StrHi == <<"h", "i">>
StrCmd == <<"/", "g", "o", " ", "x">>
StrLong == [i \in 1..(TitleMax + 1) |-> IF i = 2 THEN "\n" ELSE "x"]
StrNumber == <<"5">>

SummaryLine(s, hasMeta, ts, ms) ==
    [BlankLine EXCEPT !.type = "summary", !.summary = s, !.hasMetadata = hasMeta,
                      !.thread_summary = ts, !.metaSummary = ms]

UserLine(t, txt, isStr, sid) ==
    [BlankLine EXCEPT !.type = "user", !.timestamp = t, !.text = txt,
                      !.textIsString = isStr, !.sessionId = sid]

AssistantLine(t, u, mdl, parent) ==
    [BlankLine EXCEPT !.type = "assistant", !.timestamp = t, !.hasMessage = TRUE,
                      !.hasUsage = TRUE, !.usage = u, !.model = mdl, !.parentUUID = parent]

ToolUseLine(t, name, id, parent) ==
    [BlankLine EXCEPT !.type = "tool_use", !.timestamp = t, !.toolName = name,
                      !.toolId = id, !.parentUUID = parent]

ToolResultLine(t, id, err) ==
    [BlankLine EXCEPT !.type = "tool_result", !.timestamp = t, !.tool_use_id = id,
                      !.is_error = err]

SummaryLines ==
    { SummaryLine(StrSummary, FALSE, <<>>, <<>>),
      SummaryLine(<<>>, TRUE, StrThread, <<>>),
      SummaryLine(<<>>, TRUE, <<>>, StrMeta),
      SummaryLine(<<>>, TRUE, StrThread, StrMeta) }

UserLines ==
    { UserLine(0, StrHi, TRUE, "s1"),
      UserLine(2, StrLong, TRUE, ""),
      UserLine(1, StrCmd, TRUE, "s2"),
      UserLine(3, StrNumber, FALSE, "s2") }

AssistantLines ==
    { AssistantLine(0, Usage(1000, 0, 0, 0), "some-unknown-model", ""),
      AssistantLine(2, Usage(1500, 100, 300, 100), "claude-opus-4-20250514", "p1"),
      AssistantLine(1, Usage(Absent, 2500, Absent, Absent), "claude-3-5-haiku-20241022", ""),
      AssistantLine(NoTs, Usage(0, 5000, 0, 0), "claude-3-5-haiku-20241022", "t1"),
      [AssistantLine(3, Usage(0, 0, 0, 0), "", "") EXCEPT !.hasUsage = FALSE] }

ToolLines ==
    { ToolUseLine(1, "Bash", "t1", "p1"),
      ToolUseLine(NoTs, "", "t2", "p1"),
      ToolResultLine(2, "t1", TRUE),
      ToolResultLine(2, "t2", FALSE) }

Lines == {InvalidLine} \cup SummaryLines \cup UserLines \cup AssistantLines \cup ToolLines

\* ---------------------------------------------------------------- parseJSONLFile
\* models: {}, kept in insertion order like toolUsage
NoModels == <<>>

NewConversation ==
    [conversationId |-> "", sessionId |-> "", conversationTitle |-> <<>>, totalCost |-> 0,
     totalTokens |-> ZeroTokens, messageCount |-> 0,
     startTime |-> NoTs, endTime |-> NoTs, duration |-> 0,
     summary |-> <<>>, firstUserMessage |-> <<>>, messages |-> <<>>,
     toolUsage |-> <<>>, commands |-> <<>>, errors |-> <<>>,
     models |-> NoModels, tokenBurnRate |-> <<>>, projectName |-> ""]

\* lines 283-285
ExtractSessionId(c, m) ==
    IF m.sessionId # "" /\ c.sessionId = "" THEN [c EXCEPT !.sessionId = m.sessionId] ELSE c

\* lines 288-302: each assignment overwrites the one before it
ExtractSummary(c, m) ==
    IF m.type # "summary" THEN c
    ELSE LET c1 == IF Truthy(m.summary) THEN [c EXCEPT !.summary = m.summary] ELSE c
             c2 == IF m.hasMetadata /\ Truthy(m.thread_summary)
                   THEN [c1 EXCEPT !.conversationTitle = m.thread_summary] ELSE c1
             c3 == IF m.hasMetadata /\ Truthy(m.metaSummary)
                   THEN [c2 EXCEPT !.conversationTitle = m.metaSummary] ELSE c2
         IN  c3

\* lines 305-307 and 362-363: text.substring / text.match of a text that is not a
\* string raises a TypeError, which the catch of line 467 swallows
ThrowsOnText(m) == m.type = "user" /\ Truthy(m.text) /\ ~m.textIsString

\* lines 305-307
CaptureFirstUser(c, m) ==
    IF m.type = "user" /\ ~Truthy(c.firstUserMessage) /\ Truthy(m.text)
    THEN [c EXCEPT !.firstUserMessage = Substring(m.text, TitleMax)]
    ELSE c

\* The index of tool `name` in the insertion-ordered toolUsage, 0 when absent.
ToolIndex(tu, name) ==
    IF \E i \in 1..Len(tu) : tu[i].name = name
    THEN CHOOSE i \in 1..Len(tu) : tu[i].name = name
    ELSE 0

\* lines 325-344
TrackToolUse(c, m) ==
    IF m.type # "tool_use" THEN c
    ELSE LET toolName == IF m.toolName # "" THEN m.toolName ELSE "unknown"
             tu0 == IF ToolIndex(c.toolUsage, toolName) = 0
                    THEN Append(c.toolUsage,
                                [name |-> toolName, count |-> 0, totalCost |-> 0,
                                 errors |-> 0, executions |-> <<>>])
                    ELSE c.toolUsage
             i == ToolIndex(tu0, toolName)
             exec == [timestamp |-> m.timestamp, id |-> m.toolId, parentId |-> m.parentUUID]
         IN  [c EXCEPT !.toolUsage =
                 [tu0 EXCEPT ![i] = [@ EXCEPT !.count = @ + 1,
                                              !.executions = Append(@, exec)]]]

\* lines 347-359: an error result is recorded in conversation.errors only
TrackToolResult(c, m) ==
    IF m.type = "tool_result" /\ m.is_error
    THEN [c EXCEPT !.errors = Append(@, [timestamp |-> m.timestamp,
                                         toolUseId |-> m.tool_use_id,
                                         parentId |-> m.parentUUID])]
    ELSE c

\* lines 362-371
ExtractCommand(c, m) ==
    IF m.type = "user" /\ Truthy(m.text) /\ CommandMatch(m.text) # <<>>
    THEN [c EXCEPT !.commands = Append(@, [command |-> CommandMatch(m.text),
                                           timestamp |-> m.timestamp,
                                           fullText |-> m.text])]
    ELSE c

\* The index of `model` in the insertion-ordered models, 0 when absent.
ModelIndex(models, model) ==
    IF \E i \in 1..Len(models) : models[i].model = model
    THEN CHOOSE i \in 1..Len(models) : models[i].model = model
    ELSE 0

\* lines 392-405
TrackModel(models, model, cost, tokens) ==
    LET m0 == IF ModelIndex(models, model) = 0
              THEN Append(models, [model |-> model, count |-> 0, cost |-> 0,
                                   tokens |-> ZeroTokens])
              ELSE models
        i == ModelIndex(m0, model)
    IN  [m0 EXCEPT ![i] = [@ EXCEPT !.count = @ + 1, !.cost = @ + cost,
                                    !.tokens = AddTokens(@, tokens)]]

\* executions.find(exec => exec.id === parentUUID || exec.parentId === parentUUID)
HasRelatedExecution(toolData, parentUUID) ==
    \E j \in 1..Len(toolData.executions) :
        \/ toolData.executions[j].id = parentUUID
        \/ toolData.executions[j].parentId = parentUUID

\* Mutant of AttributeToolCost: the loop has no break, every tool with a related
\* execution gets the cost.
AttributeToolCostNoBreak(tu, parentUUID, cost) ==
    IF parentUUID = "" THEN tu
    ELSE [i \in 1..Len(tu) |->
             IF HasRelatedExecution(tu[i], parentUUID)
             THEN [tu[i] EXCEPT !.totalCost = @ + cost]
             ELSE tu[i]]

\* lines 408-419: the first tool, in insertion order, with a related execution
AttributeToolCost(tu, parentUUID, cost) ==
    IF parentUUID = "" THEN tu
    ELSE LET hits == {i \in 1..Len(tu) : HasRelatedExecution(tu[i], parentUUID)}
         IN  IF hits = {} THEN tu
             ELSE LET i == CHOOSE h \in hits : \A g \in hits : h <= g
                  IN  [tu EXCEPT ![i] = [@ EXCEPT !.totalCost = @ + cost]]

\* Mutant of BurnGuard: a zero delta passes.
BurnGuardNonNegative(timeDiff) == timeDiff >= 0

\* line 424
BurnGuard(timeDiff) == timeDiff > 0

\* Mutant of BatchBurnRate: the rate is taken from the input tokens alone.
BatchBurnRateFromInput(burn, m, last, tokens, cost) ==
    IF m.timestamp # NoTs /\ last # NoTs /\ BurnGuard(m.timestamp - last)
    THEN Append(burn, [timestamp |-> m.timestamp,
                       rate |-> [num |-> tokens.input, den |-> m.timestamp - last],
                       tokens |-> tokens.total, cost |-> cost])
    ELSE burn

\* lines 422-433
BatchBurnRate(burn, m, last, tokens, cost) ==
    IF m.timestamp # NoTs /\ last # NoTs /\ BurnGuard(m.timestamp - last)
    THEN Append(burn, [timestamp |-> m.timestamp,
                       rate |-> [num |-> tokens.total, den |-> m.timestamp - last],
                       tokens |-> tokens.total, cost |-> cost])
    ELSE burn

\* Mutant of HasCostData: an event without a timestamp is not accounted.
HasCostDataNeedsTimestamp(m) ==
    m.type = "assistant" /\ m.hasMessage /\ m.hasUsage /\ m.model # ""
    /\ m.timestamp # NoTs

\* lines 374-378: message.type === 'assistant' && message.message, usage && model
HasCostData(m) == m.type = "assistant" /\ m.hasMessage /\ m.hasUsage /\ m.model # ""

\* lines 374-436, on st = [conv, lastTimestamp]
AccumulateCost(st, m) ==
    IF ~HasCostData(m) THEN st
    ELSE LET cost == calculateCost(m.usage, m.model)
             tokens == calculateTokens(m.usage)
             c == st.conv
         IN  [conv |->
                 [c EXCEPT !.totalCost = @ + cost,
                           !.totalTokens = AddTokens(@, tokens),
                           !.messageCount = @ + 1,
                           !.models = TrackModel(@, m.model, cost, tokens),
                           !.toolUsage = AttributeToolCost(@, m.parentUUID, cost),
                           !.tokenBurnRate =
                               BatchBurnRate(@, m, st.lastTimestamp, tokens, cost)],
              lastTimestamp |-> m.timestamp]

\* lines 439-455
StoreMessage(c, m) ==
    [c EXCEPT !.messages = Append(@, [type |-> m.type, timestamp |-> m.timestamp,
                                      parentId |-> m.parentUUID])]

\* Mutant of TrackTimeRange: the lines are taken to be in timestamp order.
TrackTimeRangeMonotonic(c, m) ==
    IF m.timestamp = NoTs THEN c
    ELSE [c EXCEPT !.startTime = IF @ = NoTs THEN m.timestamp ELSE @,
                   !.endTime = m.timestamp]

\* lines 458-466
TrackTimeRange(c, m) ==
    IF m.timestamp = NoTs THEN c
    ELSE [c EXCEPT
            !.startTime = IF @ = NoTs \/ m.timestamp < @ THEN m.timestamp ELSE @,
            !.endTime = IF @ = NoTs \/ m.timestamp > @ THEN m.timestamp ELSE @]

\* One turn of the loop of lines 278-470 on st = [conv, lastTimestamp]. What a line
\* has assigned before it throws stays assigned.
ParseLine(st, m) ==
    IF ~m.valid THEN st
    ELSE LET c1 == ExtractSummary(ExtractSessionId(st.conv, m), m)
         IN  IF ThrowsOnText(m) THEN [st EXCEPT !.conv = c1]
             ELSE LET c2 == ExtractCommand(
                                TrackToolResult(
                                    TrackToolUse(CaptureFirstUser(c1, m), m), m), m)
                      st3 == AccumulateCost([st EXCEPT !.conv = c2], m)
                  IN  [st3 EXCEPT !.conv = TrackTimeRange(StoreMessage(@, m), m)]

StrUntitled ==
    <<"U", "n", "t", "i", "t", "l", "e", "d", " ",
      "c", "o", "n", "v", "e", "r", "s", "a", "t", "i", "o", "n">>

\* lines 480-484
BestTitle(c) ==
    LET t == IF Truthy(c.conversationTitle) THEN c.conversationTitle
             ELSE IF Truthy(c.summary) THEN c.summary
             ELSE IF Truthy(c.firstUserMessage) THEN c.firstUserMessage
             ELSE StrUntitled
    IN  Substring(ReplaceNewlines(t), TitleMax)

\* lines 472-491: what parseJSONLFile does after the last line
FinishConversation(c) ==
    [c EXCEPT !.duration = IF c.endTime # NoTs /\ c.startTime # NoTs
                           THEN c.endTime - c.startTime ELSE @,
              !.conversationTitle = BestTitle(c)]

\* ---------------------------------------------------------------- Number
\* The amounts of money the analyzer adds are JavaScript numbers, IEEE 754
\* doubles: Significand significant bits, every sum and quotient rounded to the
\* nearest double, ties to the even one. A positive double is m * 2^e; m is
\* kept as its digits in base LimbBase, least significant first, the last one
\* not zero, e is the exponent of its least significant bit; zero has no digits.
\* The amounts are far from the limits of the exponent.
Significand == 53

LimbBits == 12

LimbBase == 2 ^ LimbBits

NumZero == [e |-> 0, m |-> <<>>]

\* s without its leading zero digits
Strip(s) ==
    LET used == {i \in 1..Len(s) : s[i] # 0}
    IN  IF used = {} THEN <<>>
        ELSE SubSeq(s, 1, CHOOSE i \in used : \A j \in used : j <= i)

\* the number of bits of the natural s, s not zero and stripped
BitLength(s) ==
    LimbBits * (Len(s) - 1)
        + (CHOOSE b \in 1..LimbBits : 2 ^ b > s[Len(s)] /\ 2 ^ (b - 1) <= s[Len(s)])

\* s * 2^d
ShiftLeft(s, d) ==
    LET q == d \div LimbBits
        p == 2 ^ (d % LimbBits)
        n == Len(s)
    IN  [i \in 1..(q + n + 1) |->
            IF i <= q THEN 0
            ELSE (IF i - q <= n THEN (s[i - q] * p) % LimbBase ELSE 0)
                 + (IF i - q >= 2 THEN (s[i - q - 1] * p) \div LimbBase ELSE 0)]

\* s \div 2^k, for k below the number of bits of s
ShiftRight(s, k) ==
    LET q == k \div LimbBits
        r == k % LimbBits
        n == Len(s)
    IN  [i \in 1..(n - q) |->
            (s[i + q] \div 2 ^ r)
            + (IF i + q < n THEN (s[i + q + 1] % 2 ^ r) * 2 ^ (LimbBits - r) ELSE 0)]

\* s % 2^k = 0
LowBitsZero(s, k) ==
    /\ \A i \in 1..(k \div LimbBits) : i <= Len(s) => s[i] = 0
    /\ k \div LimbBits < Len(s) => s[k \div LimbBits + 1] % 2 ^ (k % LimbBits) = 0

\* x + y for digit sequences of the same length, from digit i on with carry c
\* The digits of the natural number n in base LimbBase, least significant first.
RECURSIVE DigitsOf(_)
DigitsOf(n) == IF n = 0 THEN <<>> ELSE <<n % LimbBase>> \o DigitsOf(n \div LimbBase)

RECURSIVE AddFrom(_, _, _, _)
AddFrom(x, y, i, c) ==
    IF i > Len(x) THEN <<c>>
    ELSE <<(x[i] + y[i] + c) % LimbBase>>
         \o AddFrom(x, y, i + 1, (x[i] + y[i] + c) \div LimbBase)

\* Round to nearest, ties to even: the double nearest to s * 2^e, or to a value
\* just above it when sticky tells that lower bits were lost; s is stripped and
\* has Significand bits or more.
RoundNearestEven(s, e, sticky) ==
    LET k == BitLength(s) - Significand
        keep == Strip(ShiftRight(s, k))
        guard == IF k > 0 THEN ShiftRight(s, k - 1)[1] % 2 ELSE 0
        rest == sticky \/ (k > 1 /\ ~LowBitsZero(s, k - 1))
        up == guard = 1 /\ (rest \/ keep[1] % 2 = 1)
        full == \A i \in 1..Len(keep) :
                    keep[i] = (IF i < Len(keep) THEN LimbBase
                               ELSE 2 ^ (Significand - LimbBits * (Len(keep) - 1))) - 1
        j == CHOOSE i \in 1..Len(keep) :
                 keep[i] # LimbBase - 1 /\ \A h \in 1..(i - 1) : keep[h] = LimbBase - 1
    IN  IF ~up THEN [e |-> e + k, m |-> keep]
        ELSE IF full
             THEN [e |-> e + k + 1,
                   m |-> [i \in 1..Len(keep) |->
                             IF i < Len(keep) THEN 0
                             ELSE 2 ^ (Significand - 1 - LimbBits * (Len(keep) - 1))]]
             ELSE [e |-> e + k,
                   m |-> [i \in 1..Len(keep) |->
                             IF i < j THEN 0 ELSE IF i = j THEN keep[i] + 1 ELSE keep[i]]]

\* a + b of two numbers: the exact sum, rounded
NumAdd(a, b) ==
    IF a.m = <<>> THEN b
    ELSE IF b.m = <<>> THEN a
    ELSE LET hi == IF a.e >= b.e THEN a ELSE b
             lo == IF a.e >= b.e THEN b ELSE a
             d == hi.e - lo.e
         IN  IF d > Significand + 1 THEN hi
             ELSE LET x == ShiftLeft(hi.m, d)
                      y == [i \in 1..Len(x) |-> IF i <= Len(lo.m) THEN lo.m[i] ELSE 0]
                  IN  RoundNearestEven(Strip(AddFrom(x, y, 1, 0)), lo.e, FALSE)

\* array.reduce((sum, x) => sum + x, 0), and += over a list, in list order
RECURSIVE NumSumFrom(_, _)
NumSumFrom(sum, s) == IF s = <<>> THEN sum ELSE NumSumFrom(NumAdd(sum, Head(s)), Tail(s))

NumSum(s) == NumSumFrom(NumZero, s)

\* a > b
NumGreater(a, b) ==
    IF a.m = <<>> THEN FALSE
    ELSE IF b.m = <<>> THEN TRUE
    ELSE \/ a.e > b.e
         \/ /\ a.e = b.e
            /\ \E i \in 1..Len(a.m) :
                  /\ a.m[i] > b.m[i]
                  /\ \A j \in (i + 1)..Len(a.m) : a.m[j] = b.m[j]

\* The next `count` digits, in base LimbBase, of r / d after the point, most
\* significant last in `digits`, with the remainder that is left; r < d and
\* 16 * d fits a machine integer.
RECURSIVE FractionDigits(_, _, _)
FractionDigits(r, d, count) ==
    IF count = 0 THEN [digits |-> <<>>, r |-> r]
    ELSE LET r1 == (16 * r) % d
             r2 == (16 * r1) % d
             r3 == (16 * r2) % d
             digit == 256 * ((16 * r) \div d) + 16 * ((16 * r1) \div d) + (16 * r2) \div d
             more == FractionDigits(r3, d, count - 1)
         IN  [digits |-> Append(more.digits, digit), r |-> more.r]

\* enough digits after the point for Significand bits and one more of any
\* quotient of two machine integers
QuotientDigits == 8

\* n / d as a number: the quotient of two naturals, rounded
NumQuotient(n, d) ==
    IF n = 0 THEN NumZero
    ELSE LET f == FractionDigits(n % d, d, QuotientDigits)
         IN  RoundNearestEven(Strip(f.digits \o DigitsOf(n \div d)),
                              -(LimbBits * QuotientDigits), f.r # 0)

UnitsPerDollar == 100000000

\* The number the parser holds for an amount of `units` of 1e-8 dollar: this is
\* (tokens * rate) / 1000000 of security.js line 211 when the amount is one such
\* term, the others being zero.
Num(units) == NumQuotient(units, UnitsPerDollar)

\* lines 472-491 with line 477: conversationId is the base name of the file
CloseFile(c, id) == [FinishConversation(c) EXCEPT !.conversationId = id]

\* ---------------------------------------------------------------- ConversationAnalyzer
\* no aggregation method has been called
NoReport == [fn |-> "", value |-> <<>>]

\* Array.prototype.sort((a, b) => keys[b] - keys[a]): stable, descending by key.
\* keys[i] is the key of s[i].
SortDesc(s, keys) ==
    LET n == Len(s)
        Rank(i) == 1 + Cardinality({j \in 1..n : keys[j] > keys[i]})
                     + Cardinality({j \in 1..(i - 1) : keys[j] = keys[i]})
    IN  [p \in 1..n |-> s[CHOOSE i \in 1..n : Rank(i) = p]]

\* Array.prototype.sort((a, b) => keys[b] - keys[a]) for keys that are sums of
\* money: stable, descending by key.
SortDescNum(s, keys) ==
    LET n == Len(s)
        Rank(i) == 1 + Cardinality({j \in 1..n : NumGreater(keys[j], keys[i])})
                     + Cardinality({j \in 1..(i - 1) : keys[j] = keys[i]})
    IN  [p \in 1..n |-> s[CHOOSE i \in 1..n : Rank(i) = p]]

\* A quotient n / d that is kept exact, as the pair num / den.
Ratio(n, d) == [num |-> n, den |-> d]

\* The elements of a finite set of integers in ascending order.
SortedSeq(S) ==
    [i \in 1..Cardinality(S) |-> CHOOSE x \in S : Cardinality({y \in S : y < x}) = i - 1]

\* c => c.totalCost > 0
HasCost(c) == c.totalCost > 0

\* Mutant of getConversationsWithCosts: this.conversations itself is sorted, and
\* filtered afterwards.
getConversationsWithCostsInPlace(convs) ==
    LET sorted == SortDesc(convs, [i \in 1..Len(convs) |-> convs[i].totalCost])
    IN  [value |-> SelectSeq(sorted, HasCost), conversations |-> sorted]

\* getConversationsWithCosts, lines 55-59: filter returns a new array, and it is
\* that array sort rearranges. value is what the method returns, conversations is
\* this.conversations after the call.
getConversationsWithCosts(convs) ==
    LET withCosts == SelectSeq(convs, HasCost)
    IN  [value |-> SortDesc(withCosts, [i \in 1..Len(withCosts) |-> withCosts[i].totalCost]),
         conversations |-> convs]

\* getTotalStats, lines 61-78; an average is the pair num / den of the quotient
getTotalStats(convs) ==
    LET c == getConversationsWithCosts(convs).value
        n == Len(c)
        totalCost == NumSum([i \in 1..n |-> Num(c[i].totalCost)])
        totalTokens == SumSeq([i \in 1..n |-> c[i].totalTokens.total])
        totalMessages == SumSeq([i \in 1..n |-> c[i].messageCount])
        totalDuration == SumSeq([i \in 1..n |-> c[i].duration])
    IN  [totalCost |-> totalCost, totalTokens |-> totalTokens,
         totalMessages |-> totalMessages, totalDuration |-> totalDuration,
         conversationCount |-> n,
         averageCost |-> IF n > 0 THEN Ratio(totalCost, n) ELSE Ratio(0, 1),
         averageTokens |-> IF n > 0 THEN Ratio(totalTokens, n) ELSE Ratio(0, 1),
         averageDuration |-> IF n > 0 THEN Ratio(totalDuration, n) ELSE Ratio(0, 1)]

MinutesPerHour == 60
HoursPerDay == 24

\* startTime.toISOString().split('T')[0]: the day of the instant, counted from day 0
DateKey(t) == t \div (MinutesPerHour * HoursPerDay)

\* startTime.getHours(), the local time zone being UTC
getHours(t) == (t \div MinutesPerHour) % HoursPerDay

\* conv.totalCost > 0 && conv.startTime
InTimeBuckets(c) == c.totalCost > 0 /\ c.startTime # NoTs

\* aggregateDailyCosts, lines 80-103
aggregateDailyCosts(convs) ==
    LET inc == SelectSeq(convs, InTimeBuckets)
        days == SortedSeq({DateKey(inc[i].startTime) : i \in 1..Len(inc)})
        Bucket(d) ==
            LET of == SelectSeq(inc, LAMBDA c : DateKey(c.startTime) = d)
            IN  [date |-> d,
                 totalCost |-> NumSum([i \in 1..Len(of) |-> Num(of[i].totalCost)]),
                 totalTokens |-> SumSeq([i \in 1..Len(of) |-> of[i].totalTokens.total]),
                 conversationCount |-> Len(of),
                 conversations |-> of]
    IN  [k \in 1..Len(days) |-> Bucket(days[k])]

\* lines 108-122: hourlyCosts after the forEach, hour -> bucket
HourlyBuckets(convs) ==
    LET inc == SelectSeq(convs, InTimeBuckets)
        Bucket(h) ==
            LET of == SelectSeq(inc, LAMBDA c : getHours(c.startTime) = h)
            IN  [hour |-> h,
                 totalCost |-> NumSum([i \in 1..Len(of) |-> Num(of[i].totalCost)]),
                 totalTokens |-> SumSeq([i \in 1..Len(of) |-> of[i].totalTokens.total]),
                 conversationCount |-> Len(of)]
    IN  [h \in {getHours(inc[i].startTime) : i \in 1..Len(inc)} |-> Bucket(h)]

\* Mutant of FillMissingHours: the hours without a conversation get no bucket.
KeepPresentHours(hourlyCosts) == hourlyCosts

\* lines 124-129: fill in missing hours
FillMissingHours(hourlyCosts) ==
    [h \in DOMAIN hourlyCosts \cup 0..(HoursPerDay - 1) |->
        IF h \in DOMAIN hourlyCosts THEN hourlyCosts[h]
        ELSE [hour |-> h, totalCost |-> NumZero, totalTokens |-> 0, conversationCount |-> 0]]

\* aggregateHourlyCosts, lines 105-133: Object.values(...).sort by hour
aggregateHourlyCosts(convs) ==
    LET hourlyCosts == FillMissingHours(HourlyBuckets(convs))
        hours == SortedSeq(DOMAIN hourlyCosts)
    IN  [k \in 1..Len(hours) |-> hourlyCosts[hours[k]]]

RECURSIVE AllToolNames(_)
AllToolNames(convs) ==
    IF convs = <<>> THEN <<>>
    ELSE [j \in 1..Len(Head(convs).toolUsage) |-> Head(convs).toolUsage[j].name]
         \o AllToolNames(Tail(convs))

\* The keys of an object in insertion order: each name at its first occurrence.
RECURSIVE KeepFirst(_)
KeepFirst(s) ==
    IF s = <<>> THEN <<>>
    ELSE LET init == KeepFirst(SubSeq(s, 1, Len(s) - 1))
             last == s[Len(s)]
         IN  IF \E j \in 1..Len(init) : init[j] = last THEN init ELSE Append(init, last)

\* toolData of tool `name` in conversation c, or a record of zeros
ToolDataOf(c, name) ==
    IF ToolIndex(c.toolUsage, name) = 0
    THEN [name |-> name, count |-> 0, totalCost |-> 0, errors |-> 0, executions |-> <<>>]
    ELSE c.toolUsage[ToolIndex(c.toolUsage, name)]

\* aggregateToolUsage, lines 135-157
aggregateToolUsage(convs) ==
    LET names == KeepFirst(AllToolNames(convs))
        Total(name) ==
            [name |-> name,
             totalCount |-> SumSeq([i \in 1..Len(convs) |-> ToolDataOf(convs[i], name).count]),
             totalCost |->
                 NumSum([i \in 1..Len(convs) |-> Num(ToolDataOf(convs[i], name).totalCost)]),
             totalErrors |-> SumSeq([i \in 1..Len(convs) |-> ToolDataOf(convs[i], name).errors]),
             conversations |->
                 Cardinality({i \in 1..Len(convs) : ToolIndex(convs[i].toolUsage, name) # 0})]
        totals == [k \in 1..Len(names) |-> Total(names[k])]
    IN  SortDesc(totals, [k \in 1..Len(names) |-> totals[k].totalCount])

\* getErrorStats, lines 213-235; errorRate is the pair num / den (0 / 1 for no
\* conversations)
getErrorStats(convs) ==
    LET withErrors == {i \in 1..Len(convs) : Len(convs[i].errors) > 0}
        failing == {n \in {AllToolNames(convs)[k] : k \in 1..Len(AllToolNames(convs))} :
                       \E i \in 1..Len(convs) : ToolDataOf(convs[i], n).errors > 0}
    IN  [totalErrors |-> SumSeq([i \in 1..Len(convs) |-> Len(convs[i].errors)]),
         conversationsWithErrors |-> Cardinality(withErrors),
         errorRate |-> IF Len(convs) > 0
                       THEN [num |-> Cardinality(withErrors), den |-> Len(convs)]
                       ELSE [num |-> 0, den |-> 1],
         errorsByTool |->
             [n \in failing |->
                 SumSeq([i \in 1..Len(convs) |-> ToolDataOf(convs[i], n).errors])]]

\* Array.prototype.sort((a, b) => b.rate - a.rate) on quotients: stable, descending.
\* keys[i] is the pair num / den of s[i], den > 0.
SortDescRatio(s, keys) ==
    LET n == Len(s)
        Greater(p, q) == p.num * q.den > q.num * p.den
        Same(p, q) == p.num * q.den = q.num * p.den
        Rank(i) == 1 + Cardinality({j \in 1..n : Greater(keys[j], keys[i])})
                     + Cardinality({j \in 1..(i - 1) : Same(keys[j], keys[i])})
    IN  [p \in 1..n |-> s[CHOOSE i \in 1..n : Rank(i) = p]]

\* array.slice(0, n)
SliceFirst(s, n) == SubSeq(s, 1, IF Len(s) < n THEN Len(s) ELSE n)

RECURSIVE AllModelNames(_)
AllModelNames(convs) ==
    IF convs = <<>> THEN <<>>
    ELSE [j \in 1..Len(Head(convs).models) |-> Head(convs).models[j].model]
         \o AllModelNames(Tail(convs))

\* data of `model` in conversation c, or a record of zeros
ModelDataOf(c, model) ==
    IF ModelIndex(c.models, model) = 0
    THEN [model |-> model, count |-> 0, cost |-> 0, tokens |-> ZeroTokens]
    ELSE c.models[ModelIndex(c.models, model)]

\* aggregateModelUsage, lines 159-185
aggregateModelUsage(convs) ==
    LET names == KeepFirst(AllModelNames(convs))
        n == Len(convs)
        Total(model) ==
            [model |-> model,
             totalCount |-> SumSeq([i \in 1..n |-> ModelDataOf(convs[i], model).count]),
             totalCost |-> NumSum([i \in 1..n |-> Num(ModelDataOf(convs[i], model).cost)]),
             totalTokens |->
                 [total |-> SumSeq([i \in 1..n |-> ModelDataOf(convs[i], model).tokens.total]),
                  input |-> SumSeq([i \in 1..n |-> ModelDataOf(convs[i], model).tokens.input]),
                  output |-> SumSeq([i \in 1..n |-> ModelDataOf(convs[i], model).tokens.output]),
                  cacheWrite |->
                      SumSeq([i \in 1..n |-> ModelDataOf(convs[i], model).tokens.cacheWrite]),
                  cacheRead |->
                      SumSeq([i \in 1..n |-> ModelDataOf(convs[i], model).tokens.cacheRead])],
             conversations |->
                 Cardinality({i \in 1..n : ModelIndex(convs[i].models, model) # 0})]
        totals == [k \in 1..Len(names) |-> Total(names[k])]
    IN  SortDescNum(totals, [k \in 1..Len(names) |-> totals[k].totalCost])

RECURSIVE AllCommands(_)
AllCommands(convs) ==
    IF convs = <<>> THEN <<>>
    ELSE [j \in 1..Len(Head(convs).commands) |-> Head(convs).commands[j].command]
         \o AllCommands(Tail(convs))

\* aggregateCommandUsage, lines 187-211: conversationCount is the size of the Set of
\* the conversationId values
aggregateCommandUsage(convs) ==
    LET all == AllCommands(convs)
        names == KeepFirst(all)
        Total(cmd) ==
            [command |-> cmd,
             count |-> Cardinality({k \in 1..Len(all) : all[k] = cmd}),
             conversationCount |->
                 Cardinality({convs[i].conversationId :
                     i \in {i \in 1..Len(convs) :
                               \E j \in 1..Len(convs[i].commands) :
                                   convs[i].commands[j].command = cmd}})]
        totals == [k \in 1..Len(names) |-> Total(names[k])]
    IN  SortDesc(totals, [k \in 1..Len(names) |-> totals[k].count])

\* c => c.duration > 0
HasDuration(c) == c.duration > 0

\* lines 254-262: the positive gaps between consecutive stamped messages, in minutes
MessageGaps(session) ==
    LET ms == session.messages
        at == {i \in 2..Len(ms) : /\ ms[i].timestamp # NoTs
                                  /\ ms[i - 1].timestamp # NoTs
                                  /\ ms[i].timestamp - ms[i - 1].timestamp > 0}
        idx == SortedSeq(at)
    IN  [k \in 1..Len(idx) |-> ms[idx[k]].timestamp - ms[idx[k] - 1].timestamp]

\* Math.max(...gaps), gaps not empty
MaxOf(gaps) == CHOOSE g \in {gaps[k] : k \in 1..Len(gaps)} :
                   \A k \in 1..Len(gaps) : gaps[k] <= g

\* lines 253-273: one entry of idleTimeAnalysis
IdleTime(session) ==
    LET gaps == MessageGaps(session)
        maxGap == IF Len(gaps) > 0 THEN MaxOf(gaps) ELSE 0
    IN  [conversationId |-> session.conversationId,
         title |-> session.conversationTitle,
         averageGap |-> IF Len(gaps) > 0 THEN Ratio(SumSeq(gaps), Len(gaps)) ELSE Ratio(0, 1),
         maxGap |-> maxGap,
         idlePercentage |-> IF session.duration > 0
                            THEN Ratio(maxGap * 100, session.duration) ELSE Ratio(0, 1)]

IdleGapMin == 5
IdleTop == 10

\* getSessionStats, lines 237-283: sort rearranges the array filter made. value is
\* what the method returns (NoSession for null), conversations is
\* this.conversations after the call.
getSessionStats(convs) ==
    LET sessions == SelectSeq(convs, HasDuration)
        sortedByDuration ==
            SortDesc(sessions, [i \in 1..Len(sessions) |-> sessions[i].duration])
        idle == SelectSeq([i \in 1..Len(sortedByDuration) |-> IdleTime(sortedByDuration[i])],
                          LAMBDA s : s.maxGap > IdleGapMin)
    IN  [value |->
            IF Len(sessions) = 0
            THEN [averageDuration |-> Ratio(0, 1), longestSession |-> <<>>,
                  shortestSession |-> <<>>, totalSessions |-> 0,
                  idleTimeAnalysis |-> <<>>]
            ELSE [averageDuration |->
                      Ratio(SumSeq([i \in 1..Len(sessions) |-> sessions[i].duration]),
                            Len(sessions)),
                  longestSession |-> <<sortedByDuration[1]>>,
                  shortestSession |-> <<sortedByDuration[Len(sortedByDuration)]>>,
                  totalSessions |-> Len(sessions),
                  idleTimeAnalysis |->
                      SliceFirst(SortDesc(idle, [i \in 1..Len(idle) |-> idle[i].maxGap]),
                                 IdleTop)],
         conversations |-> convs]

\* lines 288-296: allBurnRates
RECURSIVE AllBurnRates(_)
AllBurnRates(convs) ==
    IF convs = <<>> THEN <<>>
    ELSE LET c == Head(convs)
         IN  [j \in 1..Len(c.tokenBurnRate) |->
                 [timestamp |-> c.tokenBurnRate[j].timestamp,
                  rate |-> c.tokenBurnRate[j].rate,
                  tokens |-> c.tokenBurnRate[j].tokens,
                  cost |-> c.tokenBurnRate[j].cost,
                  conversationId |-> c.conversationId,
                  conversationTitle |-> c.conversationTitle]]
             \o AllBurnRates(Tail(convs))

BurnTop == 20

\* getTokenBurnStats, lines 285-314
getTokenBurnStats(convs) ==
    LET all == AllBurnRates(convs)
        sortedByRate == SortDescRatio(all, [i \in 1..Len(all) |-> all[i].rate])
        sum == RateSum(all)
    IN  IF Len(all) = 0
        THEN [averageBurnRate |-> Ratio(0, 1), maxBurnRate |-> Ratio(0, 1),
              highBurnMoments |-> <<>>]
        ELSE [averageBurnRate |-> Ratio(sum.num, sum.den * Len(all)),
              maxBurnRate |-> sortedByRate[1].rate,
              highBurnMoments |-> SliceFirst(sortedByRate, BurnTop)]

\* lines 319-332: the conversations that are added to projectStats[name]
ConversationsOf(convs, name) == SelectSeq(convs, LAMBDA c : c.projectName = name)

\* getProjectStats, lines 316-358; toolUsage and models are functions of the name
getProjectStats(convs) ==
    LET names == KeepFirst([i \in 1..Len(convs) |-> convs[i].projectName])
        Total(name) ==
            LET of == ConversationsOf(convs, name)
                n == Len(of)
                tools == {AllToolNames(of)[k] : k \in 1..Len(AllToolNames(of))}
                mdls == {AllModelNames(of)[k] : k \in 1..Len(AllModelNames(of))}
            IN  [name |-> name,
                 totalCost |-> NumSum([i \in 1..n |-> Num(of[i].totalCost)]),
                 totalTokens |-> SumSeq([i \in 1..n |-> of[i].totalTokens.total]),
                 conversationCount |-> n,
                 totalDuration |-> SumSeq([i \in 1..n |-> of[i].duration]),
                 toolUsage |->
                     [t \in tools |->
                         [count |-> SumSeq([i \in 1..n |-> ToolDataOf(of[i], t).count]),
                          cost |-> NumSum([i \in 1..n |->
                                              Num(ToolDataOf(of[i], t).totalCost)])]],
                 models |->
                     [m \in mdls |->
                         [count |-> SumSeq([i \in 1..n |-> ModelDataOf(of[i], m).count]),
                          cost |-> NumSum([i \in 1..n |-> Num(ModelDataOf(of[i], m).cost)])]]]
        totals == [k \in 1..Len(names) |-> Total(names[k])]
    IN  SortDescNum(totals, [k \in 1..Len(names) |-> totals[k].totalCost])

\* the project directories under ~/.claude/projects
ProjectDirs == {"projA"}

\* ---------------------------------------------------------------- batch actions
BatchMode == mode \in {"idle", "batch"}

\* for await (const line of rl): the next line of the file
ReadLine ==
    /\ BatchMode
    /\ pc = "reading"
    /\ linesRead < MaxLines
    /\ \E m \in Lines :
          LET st == ParseLine([conv |-> conv, lastTimestamp |-> lastTimestamp], m)
          IN  /\ file' = Append(file, m)
              /\ conv' = st.conv
              /\ lastTimestamp' = st.lastTimestamp
    /\ linesRead' = linesRead + 1
    /\ mode' = "batch"
    /\ UNCHANGED <<pc, conversations, report, liveVars, otherVars>>

\* the end of the file: parseJSONLFile finishes the conversation and returns it
EndOfFile ==
    /\ BatchMode
    /\ pc = "reading"
    /\ conv' = CloseFile(conv, "s1")
    /\ pc' = "parsed"
    /\ mode' = "batch"
    /\ UNCHANGED <<file, lastTimestamp, conversations, linesRead, report, liveVars, otherVars>>

\* analyzeAllConversations, lines 40-42, and the next turn of its loop
CollectConversation ==
    /\ BatchMode
    /\ pc = "parsed"
    /\ Len(conversations) < MaxFiles
    /\ \E projectDir \in ProjectDirs :
          conversations' = Append(conversations, [conv EXCEPT !.projectName = projectDir])
    /\ file' = <<>>
    /\ conv' = NewConversation
    /\ lastTimestamp' = NoTs
    /\ pc' = IF Len(conversations) + 1 < MaxFiles THEN "reading" ELSE "done"
    /\ mode' = "batch"
    /\ UNCHANGED <<linesRead, report, liveVars, otherVars>>

\* ---------------------------------------------------------------- analyzer actions
MaxConvs == 3

\* parseJSONLFile, lines 234-491, on the whole file `lines` named `id`.jsonl
RECURSIVE ParseLines(_, _)
ParseLines(st, lines) ==
    IF lines = <<>> THEN st
    ELSE ParseLines(ParseLine(st, Head(lines)), Tail(lines))

parseJSONLFile(lines, id) ==
    CloseFile(ParseLines([conv |-> NewConversation, lastTimestamp |-> NoTs], lines).conv, id)

StrOpus == "claude-opus-4-20250514"
StrHaiku == "claude-3-5-haiku-20241022"

\* The log files that may lie under ~/.claude/projects: project directory, file
\* name without .jsonl, and lines. Two projects hold a file of the same name and
\* content. The cost of a file comes from one counter of one message, at a rate
\* that is a double.
LogWork ==
    << ToolUseLine(0, "Bash", "t1", "p1"),
       AssistantLine(0, Usage(0, 0, 0, 0), StrOpus, ""),
       AssistantLine(10, Usage(0, 2500, 0, 0), StrHaiku, "p1") >>

LogLate ==
    << ToolUseLine(95, "Read", "t3", ""),
       ToolResultLine(95, "t3", TRUE),
       UserLine(96, StrCmd, TRUE, "s2"),
       AssistantLine(98, Usage(1000, 0, 0, 0), "some-unknown-model", "t3") >>

LogNextDay ==
    << UserLine(1500, StrCmd, TRUE, "s3"),
       AssistantLine(1500, Usage(2000, 0, 0, 0), "some-unknown-model", "") >>

LogNoCost ==
    << UserLine(20, StrHi, TRUE, "s4"),
       ToolUseLine(30, "Bash", "t4", ""),
       UserLine(40, StrCmd, TRUE, "s4") >>

\* A .jsonl file of a project directory: its lines, whether fs.promises.stat
\* finds it, its size in MB, and whether it can be opened for reading.
LogFile(dir, name, lines) ==
    [dir |-> dir, name |-> name, lines |-> lines, exists |-> TRUE, size |-> 1,
     readable |-> TRUE]

LogFiles ==
    { LogFile("projA", "a", LogWork),
      LogFile("projA", "b", LogLate),
      LogFile("projA", "c", LogNextDay),
      LogFile("projB", "a", LogWork),
      LogFile("projB", "d", LogNoCost),
      LogFile("projB", "e", <<InvalidLine>>) }

\* this.claudeProjectsDir: HOME/.claude/projects
ProjectsDir == <<"/", "p">>

\* how the names of the directories and of the files are spelled
Spelling ==
    [n \in {"projA", "projB", "a", "b", "c", "d", "e", "gone", "big", "edge",
            "locked", "odd"} |->
        CASE n = "projA" -> <<"A">>
          [] n = "projB" -> <<"B">>
          [] n = "gone" -> <<"g">>
          [] n = "big" -> <<"b", "i", "g">>
          [] n = "edge" -> <<"e", "d">>
          [] n = "locked" -> <<"l">>
          [] n = "odd" -> <<"o", ".", ".", "\\", "x">>
          [] OTHER -> <<n>>]

JsonlExt == <<".", "j", "s", "o", "n", "l">>

\* path.join(claudeProjectsDir, projectDir, jsonlFile), part_000 lines 31 and 35
PathOf(f) == ProjectsDir \o <<"/">> \o Spelling[f.dir] \o <<"/">> \o Spelling[f.name] \o JsonlExt

\* maxFileSize, in MB
MaxFileSize == 100

\* parser.parseJSONLFile(filePath): the checks of lines 234-242 before the lines
\* are read. A file that cannot be opened fails in the read stream.
Ingest(f) ==
    LET checked == validatePath(PathOf(f), ProjectsDir)
    IN  IF checked.threw THEN checked
        ELSE IF ~f.exists
        THEN Throws("Cannot validate file size: ENOENT: no such file or directory, stat",
                    checked.value)
        ELSE IF ~(f.size <= MaxFileSize)
        THEN Throws("File too large:", basename(checked.value))
        ELSE IF ~f.readable
        THEN Throws("EACCES: permission denied, open", checked.value)
        ELSE Returns(parseJSONLFile(f.lines, f.name))

\* analyzeAllConversations, lines 35-47: one turn of the loop, for file f
AnalyzeOne(f) ==
    LET r == Ingest(f)
    IN  /\ processedCount' = processedCount + 1
        /\ IF r.threw
           THEN /\ conversations' = conversations
                /\ diagnostics' =
                       Append(diagnostics,
                              [file |-> basename(PathOf(f)), message |-> r.message,
                               path |-> r.path])
           ELSE /\ conversations' =
                       Append(conversations, [r.value EXCEPT !.projectName = f.dir])
                /\ diagnostics' = diagnostics

AggMode == mode \in {"idle", "agg"}

\* the files of a project directory are read one after the other, lines 30-34
InDirectoryOrder(f) ==
    /\ \A i \in 1..Len(conversations) :
          ~(conversations[i].projectName = f.dir /\ conversations[i].conversationId = f.name)
    /\ IF \E i \in 1..Len(conversations) : conversations[i].projectName = f.dir
       THEN conversations[Len(conversations)].projectName = f.dir
       ELSE TRUE

\* analyzeAllConversations, lines 34-48: one turn of the loop over the files
AnalyzeFile ==
    /\ AggMode
    /\ pc = "reading"
    /\ Len(conversations) < MaxConvs
    /\ \E f \in LogFiles :
          /\ InDirectoryOrder(f)
          /\ AnalyzeOne(f)
    /\ mode' = "agg"
    /\ UNCHANGED <<file, pc, conv, lastTimestamp, linesRead, report, liveVars,
                   thresholds, input, heap, defaults, config, stream>>

\* analyzeAllConversations, lines 51-52: the loop is over
AnalysisDone ==
    /\ AggMode
    /\ pc = "reading"
    /\ pc' = "done"
    /\ mode' = "agg"
    /\ UNCHANGED <<file, conv, lastTimestamp, conversations, linesRead, report, liveVars, otherVars>>

\* A call of an aggregation method that leaves this.conversations as `after`
\* and returns `value`.
Called(fn, value, after) ==
    /\ AggMode
    /\ pc = "done"
    /\ report' = [fn |-> fn, value |-> value]
    /\ conversations' = after
    /\ mode' = "agg"
    /\ UNCHANGED <<file, pc, conv, lastTimestamp, linesRead, liveVars, otherVars>>

CallGetConversationsWithCosts ==
    LET r == getConversationsWithCosts(conversations)
    IN  Called("getConversationsWithCosts", r.value, r.conversations)

CallGetTotalStats ==
    Called("getTotalStats", getTotalStats(conversations),
           getConversationsWithCosts(conversations).conversations)

CallAggregateDailyCosts ==
    Called("aggregateDailyCosts", aggregateDailyCosts(conversations), conversations)

CallAggregateHourlyCosts ==
    Called("aggregateHourlyCosts", aggregateHourlyCosts(conversations), conversations)

CallAggregateToolUsage ==
    Called("aggregateToolUsage", aggregateToolUsage(conversations), conversations)

CallAggregateModelUsage ==
    Called("aggregateModelUsage", aggregateModelUsage(conversations), conversations)

CallAggregateCommandUsage ==
    Called("aggregateCommandUsage", aggregateCommandUsage(conversations), conversations)

CallGetErrorStats ==
    Called("getErrorStats", getErrorStats(conversations), conversations)

CallGetSessionStats ==
    LET r == getSessionStats(conversations)
    IN  Called("getSessionStats", r.value, r.conversations)

CallGetTokenBurnStats ==
    Called("getTokenBurnStats", getTokenBurnStats(conversations), conversations)

CallGetProjectStats ==
    Called("getProjectStats", getProjectStats(conversations), conversations)

\* ---------------------------------------------------------------- ConversationMonitor
NumLines == 50

RecentActivityMax == 100

\* The log files under the watched tree; the session id is the file's base name.
Paths == {"s1"}

\* The watched tree, in the order watchDirectory registers it: the projects
\* directory and the project directory under it that holds the log files.
Dirs == <<"projects", "projects/projA">>

DirSet == {Dirs[i] : i \in 1..Len(Dirs)}

DirPos(d) == CHOOSE i \in 1..Len(Dirs) : Dirs[i] = d

\* A log that exists before monitoring starts: NumLines assistant messages, one a minute.
ExistingLog ==
    [i \in 1..NumLines |->
        AssistantLine(i, Usage(1000, 0, 0, 0), "some-unknown-model", "")]

InitialFiles == [p \in Paths |-> IF p = "s1" THEN ExistingLog ELSE <<>>]

\* The lines of log file p.
FileLines(p) == InitialFiles[p] \o appended[p]

\* fs.statSync(filePath).mtime: every append advances it
Mtime(p) == Len(FileLines(p)) + 1

\* The timestamp of the last line of a log, 0 for an empty one.
LastTs(lines) == IF lines = <<>> THEN 0 ELSE lines[Len(lines)].timestamp

\* What the client may append to a log whose last line is stamped t.
Appendable(t) ==
    { AssistantLine(t + 1, Usage(1000, 0, 0, 0), "some-unknown-model", ""),
      AssistantLine(t, Usage(12000, 0, 0, 0), "claude-opus-4-20250514", ""),
      UserLine(t + 1, StrHi, TRUE, ""),
      [InvalidLine EXCEPT !.timestamp = t] }

\* configManager.get('pricing.customPricing'): {} by default
CustomPricing == [m \in {} |-> 0]

\* monitor.js lines 242-247
LivePricingFor(model) ==
    IF model \in DOMAIN CustomPricing THEN CustomPricing[model]
    ELSE IF model \in ObjectPrototype THEN InheritedMember
    ELSE IF "default" \in DOMAIN CustomPricing THEN CustomPricing["default"]
    ELSE [input |-> 300, output |-> 1500, cache_write |-> 375, cache_read |-> 30]

\* monitor.js lines 229-272: the update of one line; cost and tokens are 0 when
\* the line carries none
LineUpdate(m) ==
    LET costed == m.type = "assistant" /\ m.hasMessage /\ m.hasUsage /\ m.model # ""
        pr == LivePricingFor(m.model)
    IN  [timestamp |-> m.timestamp, type |-> m.type,
         cost |-> IF costed
                  THEN Plus(Plus(Plus(Times(OrZero(m.usage.input_tokens), pr.input),
                                      Times(OrZero(m.usage.output_tokens), pr.output)),
                                 Times(OrZero(m.usage.cache_creation_input_tokens),
                                       pr.cache_write)),
                            Times(OrZero(m.usage.cache_read_input_tokens), pr.cache_read))
                  ELSE 0,
         tokens |-> IF costed
                    THEN OrZero(m.usage.input_tokens) + OrZero(m.usage.output_tokens)
                         + OrZero(m.usage.cache_creation_input_tokens)
                         + OrZero(m.usage.cache_read_input_tokens)
                    ELSE 0]

\* monitor.js lines 223-279: a line that JSON.parse rejects, or whose text is not a
\* string (text.substring raises), is skipped
\* monitor.js lines 228-275: the try block completes for line m
LineParses(m) == m.valid /\ ~ThrowsOnText(m)

parseRecentUpdates(lines) ==
    LET parsed == SelectSeq(lines, LineParses)
    IN  [i \in 1..Len(parsed) |-> LineUpdate(parsed[i])]

\* readLastLines(filePath, numLines): the last numLines lines of the file
readLastLines(lines, numLines) ==
    IF Len(lines) > numLines THEN SubSeq(lines, Len(lines) - numLines + 1, Len(lines))
    ELSE lines

\* monitor.js lines 132-141
NewSession(sessionId) ==
    [sessionId |-> sessionId, lastUpdate |-> NoTs, totalCost |-> 0, totalTokens |-> 0,
     messages |-> 0, tokenBurnRate |-> <<>>, recentActivity |-> <<>>]

\* Mutant of LiveBurnGuard: an update without tokens passes.
LiveBurnGuardAnyUpdate(timeDiff, tokens) == timeDiff > 0

\* monitor.js line 161
LiveBurnGuard(timeDiff, tokens) == timeDiff > 0 /\ tokens # 0

\* monitor.js lines 146-173: one turn of updates.forEach
ApplyUpdate(session, update) ==
    LET n == Len(session.recentActivity)
        timeDiff == update.timestamp - session.recentActivity[n].timestamp
        burn == IF n > 0 /\ LiveBurnGuard(timeDiff, update.tokens)
                THEN Append(session.tokenBurnRate,
                            [timestamp |-> update.timestamp,
                             rate |-> [num |-> update.tokens, den |-> timeDiff],
                             tokens |-> update.tokens])
                ELSE session.tokenBurnRate
    IN  [session EXCEPT
            !.totalCost = IF update.cost = NaN THEN @ ELSE @ + update.cost,
            !.totalTokens = @ + update.tokens,
            !.messages = IF update.type = "assistant" THEN @ + 1 ELSE @,
            !.tokenBurnRate = burn,
            !.recentActivity = Append(@, update),
            !.lastUpdate = update.timestamp]

\* Mutant of ApplyUpdates: the handler gives way after the first update of the
\* batch.
ApplyUpdatesFirstOnly(session, updates) ==
    IF updates = <<>> THEN session ELSE ApplyUpdate(session, Head(updates))

\* monitor.js lines 146-173: updates.forEach, which no await interrupts
RECURSIVE ApplyUpdates(_, _)
ApplyUpdates(session, updates) ==
    IF updates = <<>> THEN session
    ELSE ApplyUpdates(ApplyUpdate(session, Head(updates)), Tail(updates))

\* monitor.js lines 175-178
KeepRecent(session) ==
    IF Len(session.recentActivity) > RecentActivityMax
    THEN [session EXCEPT !.recentActivity =
              SubSeq(@, Len(@) - RecentActivityMax + 1, Len(@))]
    ELSE session

\* configManager.getAlertThresholds() of the default configuration
Thresholds ==
    [enabled |-> TRUE, sessionCostThreshold |-> 200000000, tokenBurnRateThreshold |-> 10000]

BurnWindow == 5

\* Mutant of RecentBurnRates: the last sample alone is looked at.
LastBurnRate(samples) == readLastLines(samples, 1)

\* monitor.js line 301: session.tokenBurnRate.slice(-5)
RecentBurnRates(samples) == readLastLines(samples, BurnWindow)

\* monitor.js lines 281-317: the alerts of the emitted batch, none when nothing
\* is emitted; the message of an alert is left out
checkSessionAlerts(session) ==
    IF ~thresholds.enabled THEN <<>>
    ELSE LET recent == RecentBurnRates(session.tokenBurnRate)
             sum == RateSum(recent)
             costAlert == IF session.totalCost > thresholds.sessionCostThreshold
                          THEN <<[type |-> "session_cost", severity |-> "warning",
                                  sessionId |-> session.sessionId]>>
                          ELSE <<>>
             burnAlert == IF Len(session.tokenBurnRate) > 0
                             /\ sum.num > thresholds.tokenBurnRateThreshold
                                          * Len(recent) * sum.den
                          THEN <<[type |-> "token_burn_rate", severity |-> "critical",
                                  sessionId |-> session.sessionId]>>
                          ELSE <<>>
         IN  costAlert \o burnAlert

NoSessions == [q \in {} |-> 0]

\* What the last handler did that the state does not keep: the events it emitted, the
\* alert types of its 'alerts' event, the watchers it called close() on, the
\* watchers and paths whose failure it logged, and whether an error left it.
Quiet ==
    [handler |-> "", emitted |-> <<>>, alerts |-> <<>>, closed |-> {}, logged |-> {},
     escaped |-> FALSE]

LiveMode == mode \in {"idle", "live"}

\* The lines appended to the logs since the start, over the paths S.
RECURSIVE AppendedOver(_)
AppendedOver(S) ==
    IF S = {} THEN 0
    ELSE LET p == CHOOSE x \in S : TRUE
         IN  Len(appended[p]) + AppendedOver(S \ {p})

\* ---------------------------------------------------------------- live actions
\* The client appends a line to a log file.
AppendLine(p) ==
    /\ LiveMode
    /\ AppendedOver(Paths) < MaxAppends
    /\ \E m \in Appendable(LastTs(FileLines(p))) :
          appended' = [appended EXCEPT ![p] = Append(@, m)]
    /\ mode' = "live"
    /\ UNCHANGED <<otherVars, batchVars, monitoringEnabled, watchers, refreshTimer,
                   sessionData, activeSession, lastCheckedFiles, pendingReads, outcome>>

\* startMonitoring, lines 16-36, with watchDirectory, lines 68-95: fs.watch may
\* fail for the projects directory, and then nothing is watched
StartMonitoring ==
    /\ LiveMode
    /\ ~monitoringEnabled
    /\ \E watched \in BOOLEAN : watchers' = IF watched THEN DirSet ELSE {}
    /\ monitoringEnabled' = TRUE
    /\ refreshTimer' = TRUE
    /\ outcome' = [Quiet EXCEPT !.handler = "startMonitoring",
                                !.emitted = <<"monitoring-started">>]
    /\ mode' = "live"
    /\ UNCHANGED <<otherVars, batchVars, appended, sessionData, activeSession, lastCheckedFiles,
                   pendingReads>>

\* Mutant of StopEffects: watcher.close() is called outside any try, so the first
\* close() that throws ends stopMonitoring there.
StopEffectsUncaught(ws, throwing) ==
    IF throwing = {}
    THEN [watchers |-> {}, closed |-> ws, logged |-> {}, timerCleared |-> TRUE,
          cleared |-> TRUE, escaped |-> FALSE,
          emitted |-> <<"sessions-cleared", "monitoring-stopped">>]
    ELSE [watchers |-> ws,
          closed |-> {d \in ws : \A t \in throwing : DirPos(d) <= DirPos(t)},
          logged |-> {}, timerCleared |-> FALSE, cleared |-> FALSE, escaped |-> TRUE,
          emitted |-> <<>>]

\* stopMonitoring, lines 43-65, with clearSessionData, lines 373-377, for the
\* registered watchers ws, of which those in `throwing` throw from close()
StopEffects(ws, throwing) ==
    [watchers |-> {}, closed |-> ws, logged |-> throwing, timerCleared |-> TRUE,
     cleared |-> TRUE, escaped |-> FALSE,
     emitted |-> <<"sessions-cleared", "monitoring-stopped">>]

\* stopMonitoring, lines 38-66
StopMonitoring ==
    /\ LiveMode
    /\ monitoringEnabled
    /\ monitoringEnabled' = FALSE
    /\ \E throwing \in SUBSET watchers :
          LET e == StopEffects(watchers, throwing)
          IN  /\ watchers' = e.watchers
              /\ refreshTimer' = IF e.timerCleared THEN FALSE ELSE refreshTimer
              /\ sessionData' = IF e.cleared THEN NoSessions ELSE sessionData
              /\ activeSession' = IF e.cleared THEN "" ELSE activeSession
              /\ outcome' = [Quiet EXCEPT !.handler = "stopMonitoring",
                                          !.emitted = e.emitted,
                                          !.closed = e.closed,
                                          !.logged = e.logged,
                                          !.escaped = e.escaped]
    /\ mode' = "live"
    /\ UNCHANGED <<otherVars, batchVars, appended, lastCheckedFiles, pendingReads>>

\* the interval timer fires: checkForUpdates, lines 364-371
PeriodicCheck ==
    /\ LiveMode
    /\ refreshTimer
    /\ outcome' = [Quiet EXCEPT !.handler = "checkForUpdates",
                                !.emitted = <<"periodic-check">>]
    /\ mode' = "live"
    /\ UNCHANGED <<otherVars, batchVars, appended, monitoringEnabled, watchers,
                   refreshTimer, sessionData, activeSession, lastCheckedFiles,
                   pendingReads>>

\* Mutant of MtimeAdvanced: an equal modification time passes.
MtimeNotOlder(lastChecked, mtime) == lastChecked = 0 \/ mtime >= lastChecked

\* monitor.js line 101: !lastChecked || stats.mtime > lastChecked
MtimeAdvanced(lastChecked, mtime) == lastChecked = 0 \/ mtime > lastChecked

\* An exception nothing catches ends the process, and with it the monitor's memory;
\* the log files stay.
ProcessExits(handler) ==
    /\ mode' = "exited"
    /\ outcome' = [Quiet EXCEPT !.handler = handler, !.escaped = TRUE]
    /\ monitoringEnabled' = FALSE
    /\ watchers' = {}
    /\ refreshTimer' = FALSE
    /\ sessionData' = NoSessions
    /\ activeSession' = ""
    /\ lastCheckedFiles' = [q \in Paths |-> 0]
    /\ pendingReads' = [q \in Paths |-> 0]
    /\ UNCHANGED <<otherVars, batchVars, appended>>

\* a registered watcher reports path p: the callback of lines 73-77 calls
\* handleFileChange, lines 97-121. fs.statSync throws when the file is gone or
\* cannot be stat'ed, and neither handleFileChange nor the callback catches it.
\* Otherwise the call of processFileUpdate runs up to its await and is left pending.
HandleFileChange(p) ==
    /\ LiveMode
    /\ watchers # {}
    /\ \E statThrows \in BOOLEAN :
          IF statThrows THEN ProcessExits("handleFileChange")
          ELSE /\ IF MtimeAdvanced(lastCheckedFiles[p], Mtime(p))
                  THEN /\ lastCheckedFiles' = [lastCheckedFiles EXCEPT ![p] = Mtime(p)]
                       /\ activeSession' = p
                       /\ pendingReads' = [pendingReads EXCEPT ![p] = @ + 1]
                       /\ outcome' = [Quiet EXCEPT !.handler = "handleFileChange",
                                                   !.emitted = <<"file-changed">>]
                  ELSE /\ outcome' = [Quiet EXCEPT !.handler = "handleFileChange"]
                       /\ UNCHANGED <<lastCheckedFiles, activeSession, pendingReads>>
               /\ mode' = "live"
               /\ UNCHANGED <<otherVars, batchVars, appended, monitoringEnabled, watchers,
                              refreshTimer, sessionData>>

\* readLastLines settles: the rest of processFileUpdate, lines 126-192. When the
\* stream fails the promise rejects and the catch of line 190 logs the error.
ProcessFileUpdate(p) ==
    /\ LiveMode
    /\ pendingReads[p] > 0
    /\ pendingReads' = [pendingReads EXCEPT ![p] = @ - 1]
    /\ \E readFails \in BOOLEAN :
        LET updates == parseRecentUpdates(readLastLines(FileLines(p), NumLines))
            session == IF p \in DOMAIN sessionData THEN sessionData[p] ELSE NewSession(p)
            after == KeepRecent(ApplyUpdates(session, updates))
            alerts == checkSessionAlerts(after)
        IN  IF readFails
            THEN /\ outcome' = [Quiet EXCEPT !.handler = "processFileUpdate",
                                             !.logged = {p}]
                 /\ UNCHANGED sessionData
            ELSE IF Len(updates) > 0
            THEN /\ sessionData' = [q \in DOMAIN sessionData \cup {p} |->
                                       IF q = p THEN after ELSE sessionData[q]]
                 /\ outcome' = [Quiet EXCEPT
                                   !.handler = "processFileUpdate",
                                   !.emitted = IF alerts # <<>>
                                               THEN <<"session-updated", "alerts">>
                                               ELSE <<"session-updated">>,
                                   !.alerts = alerts]
            ELSE /\ outcome' = [Quiet EXCEPT !.handler = "processFileUpdate"]
                 /\ UNCHANGED sessionData
    /\ mode' = "live"
    /\ UNCHANGED <<otherVars, batchVars, appended, monitoringEnabled, watchers,
                   refreshTimer, activeSession, lastCheckedFiles>>

Init ==
    /\ mode = "idle"
    /\ thresholds = Thresholds
    /\ input = NoInput
    /\ processedCount = 0
    /\ diagnostics = <<>>
    /\ heap = NoObjects
    /\ stream = NoStream
    /\ defaults = NoObjects
    /\ config = NoObjects
    /\ file = <<>>
    /\ pc = "reading"
    /\ conv = NewConversation
    /\ lastTimestamp = NoTs
    /\ conversations = <<>>
    /\ linesRead = 0
    /\ report = NoReport
    /\ appended = [p \in Paths |-> <<>>]
    /\ monitoringEnabled = FALSE
    /\ watchers = {}
    /\ refreshTimer = FALSE
    /\ sessionData = NoSessions
    /\ activeSession = ""
    /\ lastCheckedFiles = [p \in Paths |-> 0]
    /\ pendingReads = [p \in Paths |-> 0]
    /\ outcome = Quiet

NextBatch == ReadLine \/ EndOfFile \/ CollectConversation

BatchSpec == Init /\ [][NextBatch]_vars

NextLive ==
    \/ StartMonitoring
    \/ StopMonitoring
    \/ PeriodicCheck
    \/ \E p \in Paths : AppendLine(p)
    \/ \E p \in Paths : HandleFileChange(p)
    \/ \E p \in Paths : ProcessFileUpdate(p)

LiveSpec == Init /\ [][NextLive]_vars

NextAgg ==
    \/ AnalyzeFile
    \/ AnalysisDone
    \/ CallGetConversationsWithCosts
    \/ CallGetTotalStats
    \/ CallAggregateDailyCosts
    \/ CallAggregateHourlyCosts
    \/ CallAggregateToolUsage
    \/ CallAggregateModelUsage
    \/ CallAggregateCommandUsage
    \/ CallGetErrorStats
    \/ CallGetSessionStats
    \/ CallGetTokenBurnStats
    \/ CallGetProjectStats

AggSpec == Init /\ [][NextAgg]_vars

\* ---------------------------------------------------------------- checkSessionAlerts
MaxSamples == 6

\* burn rates below and above the threshold of 10000 tokens a minute
SampleRates == {Ratio(1000, 1), Ratio(25000, 2), Ratio(60000, 1)}

\* a session cost below and above the threshold of 2 dollars
SampleCosts == {0, 250000000}

\* The sessions checkSessionAlerts is called for: up to MaxSamples burn samples,
\* one a minute.
AlertSessions ==
    {[NewSession("s1") EXCEPT
          !.totalCost = c,
          !.tokenBurnRate = [k \in 1..Len(rates) |->
                                [timestamp |-> k, rate |-> rates[k],
                                 tokens |-> rates[k].num \div rates[k].den]]] :
        c \in SampleCosts,
        rates \in UNION {[1..n -> SampleRates] : n \in 0..MaxSamples}}

AlertInit ==
    /\ mode = "alert"
    /\ thresholds \in {[Thresholds EXCEPT !.enabled = e] : e \in BOOLEAN}
    /\ input = NoInput
    /\ processedCount = 0
    /\ diagnostics = <<>>
    /\ heap = NoObjects
    /\ stream = NoStream
    /\ defaults = NoObjects
    /\ config = NoObjects
    /\ file = <<>>
    /\ pc = "reading"
    /\ conv = NewConversation
    /\ lastTimestamp = NoTs
    /\ conversations = <<>>
    /\ linesRead = 0
    /\ report = NoReport
    /\ appended = [p \in Paths |-> <<>>]
    /\ monitoringEnabled = TRUE
    /\ watchers = {}
    /\ refreshTimer = TRUE
    /\ sessionData \in {[q \in {"s1"} |-> session] : session \in AlertSessions}
    /\ activeSession = "s1"
    /\ lastCheckedFiles = [p \in Paths |-> 0]
    /\ pendingReads = [p \in Paths |-> 0]
    /\ outcome = Quiet

\* checkSessionAlerts(session), monitor.js lines 281-317
CheckSessionAlerts ==
    /\ mode = "alert"
    /\ outcome = Quiet
    /\ LET alerts == checkSessionAlerts(sessionData["s1"])
       IN  outcome' = [Quiet EXCEPT !.handler = "checkSessionAlerts",
                                    !.emitted = IF alerts # <<>> THEN <<"alerts">>
                                                ELSE <<>>,
                                    !.alerts = alerts]
    /\ UNCHANGED <<mode, otherVars, batchVars, appended, monitoringEnabled, watchers,
                   refreshTimer, sessionData, activeSession, lastCheckedFiles,
                   pendingReads>>

NextAlert == CheckSessionAlerts

AlertSpec == AlertInit /\ [][NextAlert]_vars

\* ---- calculateCost on its own
\* The arguments of a call: the usage and the model of one message.
PricingUsages ==
    {NoUsage} \cup
    { Usage(i, o, cw, cr) : i \in {Absent, 0, 1000000}, o \in {Absent, 0, 1000},
                            cw \in {0, 500}, cr \in {0, 200} }

PricingModels ==
    {"claude-opus-4-20250514", "claude-3-5-haiku-20241022", "default",
     "some-unknown-model", "claude-sonnet-9", "",
     "constructor", "toString", "__proto__"}

PricingInit ==
    /\ mode = "pricing"
    /\ thresholds = Thresholds
    /\ input = NoInput
    /\ processedCount = 0
    /\ diagnostics = <<>>
    /\ heap = NoObjects
    /\ stream = NoStream
    /\ defaults = NoObjects
    /\ config = NoObjects
    /\ file \in { <<[AssistantLine(NoTs, u, mdl, "") EXCEPT !.hasUsage = u # NoUsage]>> :
                    u \in PricingUsages, mdl \in PricingModels }
    /\ pc = "reading"
    /\ conv = NewConversation
    /\ lastTimestamp = NoTs
    /\ conversations = <<>>
    /\ linesRead = 0
    /\ report = NoReport
    /\ appended = [p \in Paths |-> <<>>]
    /\ monitoringEnabled = FALSE
    /\ watchers = {}
    /\ refreshTimer = FALSE
    /\ sessionData = NoSessions
    /\ activeSession = ""
    /\ lastCheckedFiles = [p \in Paths |-> 0]
    /\ pendingReads = [p \in Paths |-> 0]
    /\ outcome = Quiet

\* parser.calculateCost(usage, model), security.js lines 206-217
CallCalculateCost ==
    /\ mode = "pricing"
    /\ report.fn = NoReport.fn
    /\ report' = [fn |-> "calculateCost",
                  value |-> calculateCost(file[1].usage, file[1].model)]
    /\ UNCHANGED <<mode, otherVars, file, pc, conv, lastTimestamp, conversations,
                   linesRead, liveVars>>

\* monitor.parseRecentUpdates(lines, sessionId), monitor.js lines 223-279, on
\* the same line
CallParseRecentUpdates ==
    /\ mode = "pricing"
    /\ report.fn # "parseRecentUpdates"
    /\ report' = [fn |-> "parseRecentUpdates", value |-> parseRecentUpdates(file)]
    /\ UNCHANGED <<mode, otherVars, file, pc, conv, lastTimestamp, conversations,
                   linesRead, liveVars>>

NextPricing == CallCalculateCost \/ CallParseRecentUpdates

PricingSpec == PricingInit /\ [][NextPricing]_vars

\* ---- analyzeAllConversations over a projects directory with files that fail
\* The .jsonl files of the projects directory, in the order of readdirSync.
ListedFiles ==
    << LogFile("projA", "a", LogWork),
       [LogFile("projA", "gone", <<>>) EXCEPT !.exists = FALSE],
       [LogFile("projA", "big", LogLate) EXCEPT !.size = MaxFileSize + 1],
       [LogFile("projA", "edge", LogLate) EXCEPT !.size = MaxFileSize],
       [LogFile("projB", "locked", LogWork) EXCEPT !.readable = FALSE],
       LogFile("projB", "odd", LogWork),
       LogFile("projB", "d", LogNoCost) >>

\* the files of ListedFiles whose positions are in S, in the same order
Listing(S) == LET Kept(f) == \E i \in S : ListedFiles[i] = f IN SelectSeq(ListedFiles, Kept)

IngestInit ==
    /\ mode = "ingest"
    /\ thresholds = Thresholds
    /\ input \in {Listing(S) : S \in SUBSET (1..Len(ListedFiles))}
    /\ processedCount = 0
    /\ diagnostics = <<>>
    /\ heap = NoObjects
    /\ stream = NoStream
    /\ defaults = NoObjects
    /\ config = NoObjects
    /\ file = <<>>
    /\ pc = "reading"
    /\ conv = NewConversation
    /\ lastTimestamp = NoTs
    /\ conversations = <<>>
    /\ linesRead = 0
    /\ report = NoReport
    /\ appended = [p \in Paths |-> <<>>]
    /\ monitoringEnabled = FALSE
    /\ watchers = {}
    /\ refreshTimer = FALSE
    /\ sessionData = NoSessions
    /\ activeSession = ""
    /\ lastCheckedFiles = [p \in Paths |-> 0]
    /\ pendingReads = [p \in Paths |-> 0]
    /\ outcome = Quiet

\* analyzeAllConversations, lines 34-48: one turn of the loop over the listing.
\* The error of a read stream that cannot open its file reaches the for await
\* loop as a rejection in some versions of Node and is an uncaught 'error' event
\* that ends the process in others.
AnalyzeListedFile ==
    /\ mode = "ingest"
    /\ pc = "reading"
    /\ processedCount < Len(input)
    /\ LET f == input[processedCount + 1]
       IN  \/ /\ AnalyzeOne(f)
              /\ UNCHANGED mode
           \/ /\ Ingest(f).message = "EACCES: permission denied, open"
              /\ mode' = "exited"
              /\ processedCount' = processedCount + 1
              /\ UNCHANGED <<conversations, diagnostics>>
    /\ UNCHANGED <<file, pc, conv, lastTimestamp, linesRead, report, liveVars,
                   thresholds, input, heap, defaults, config, stream>>

\* analyzeAllConversations, lines 51-52: the listing is exhausted
ListingDone ==
    /\ mode = "ingest"
    /\ pc = "reading"
    /\ processedCount = Len(input)
    /\ pc' = "done"
    /\ UNCHANGED <<mode, file, conv, lastTimestamp, conversations, linesRead, report,
                   liveVars, otherVars>>

NextIngest == AnalyzeListedFile \/ ListingDone

IngestSpec == IngestInit /\ [][NextIngest]_vars

\* ---- validatePath on its own
PathSegments == { <<"p">>, <<"p", "q">>, <<"x">>, <<".", ".">>, <<".">> }

\* the absolute paths of one to three segments, and some others: the empty
\* string, a relative path, a trailing separator, a backslash, an encoded ".."
FilePaths ==
    { JoinSegments(segs) : segs \in UNION { [1..n -> PathSegments] : n \in 1..3 } }
    \cup { <<>>, <<"p", "/", "x">>, <<"/", "p", "/", "x", "/">>,
           <<"/", "p", "/", "a", ".", ".", "\\", "x">>,
           <<"/", "p", "/", "%", "2", "E", "%", "2", "e">> }

AllowedBases == { <<"/", "p">>, <<"/", "p", "/">>, <<>> }

PathInit ==
    /\ mode = "path"
    /\ thresholds = Thresholds
    /\ input \in [filePath : FilePaths, allowedBase : AllowedBases]
    /\ processedCount = 0
    /\ diagnostics = <<>>
    /\ heap = NoObjects
    /\ stream = NoStream
    /\ defaults = NoObjects
    /\ config = NoObjects
    /\ file = <<>>
    /\ pc = "reading"
    /\ conv = NewConversation
    /\ lastTimestamp = NoTs
    /\ conversations = <<>>
    /\ linesRead = 0
    /\ report = NoReport
    /\ appended = [p \in Paths |-> <<>>]
    /\ monitoringEnabled = FALSE
    /\ watchers = {}
    /\ refreshTimer = FALSE
    /\ sessionData = NoSessions
    /\ activeSession = ""
    /\ lastCheckedFiles = [p \in Paths |-> 0]
    /\ pendingReads = [p \in Paths |-> 0]
    /\ outcome = Quiet

\* SecurityUtils.validatePath(filePath, allowedBase), security.js lines 30-54
CallValidatePath ==
    /\ mode = "path"
    /\ report = NoReport
    /\ report' = [fn |-> "validatePath",
                  value |-> validatePath(input.filePath, input.allowedBase)]
    /\ UNCHANGED <<mode, file, pc, conv, lastTimestamp, conversations, linesRead,
                   liveVars, otherVars>>

NextPath == CallValidatePath

PathSpec == PathInit /\ [][NextPath]_vars

\* ---- safeMerge on its own
MergeKeys == {"a", "__proto__", "constructor", "prototype"}

\* the object with the one key
Single(key, value) == Object([k \in {key} |-> value])

\* the objects of JSON.parse with at most one key at each of up to three levels
Nested1 == {Object(<<>>)} \cup {Single(k, v) : k \in MergeKeys, v \in {Scalar(TRUE), Array}}
Nested2 == Nested1 \cup {Single(k, o) : k \in MergeKeys, o \in Nested1}
Nested3 == Nested2 \cup {Single(k, o) : k \in MergeKeys, o \in Nested2}

MergeSources == Nested3 \cup {Scalar(TRUE), Scalar(FALSE), Array}

\* targets without a forbidden key
MergeTargets ==
    { Object(<<>>), Single("a", Scalar(TRUE)), Single("a", Scalar(FALSE)),
      Single("a", Object(<<>>)), Single("a", Single("a", Object(<<>>))),
      Single("b", Single("a", Scalar(TRUE))) }

MergeInit ==
    /\ mode = "merge"
    /\ thresholds = Thresholds
    /\ input \in [target : MergeTargets, source : MergeSources]
    /\ processedCount = 0
    /\ diagnostics = <<>>
    /\ heap = NoObjects
    /\ stream = NoStream
    /\ defaults = NoObjects
    /\ config = NoObjects
    /\ file = <<>>
    /\ pc = "reading"
    /\ conv = NewConversation
    /\ lastTimestamp = NoTs
    /\ conversations = <<>>
    /\ linesRead = 0
    /\ report = NoReport
    /\ appended = [p \in Paths |-> <<>>]
    /\ monitoringEnabled = FALSE
    /\ watchers = {}
    /\ refreshTimer = FALSE
    /\ sessionData = NoSessions
    /\ activeSession = ""
    /\ lastCheckedFiles = [p \in Paths |-> 0]
    /\ pendingReads = [p \in Paths |-> 0]
    /\ outcome = Quiet

\* SecurityUtils.safeMerge(target, source), security.js lines 101-129
CallSafeMerge ==
    /\ mode = "merge"
    /\ report = NoReport
    /\ report' = [fn |-> "safeMerge", value |-> safeMerge(input.target, input.source)]
    /\ UNCHANGED <<mode, file, pc, conv, lastTimestamp, conversations, linesRead,
                   liveVars, otherVars>>

NextMerge == CallSafeMerge

MergeSpec == MergeInit /\ [][NextMerge]_vars

\* ------------------------------------------------------------------------
\* readLastLines at the level of the read stream (monitor.js lines 195-221)
\* ------------------------------------------------------------------------
\* bounds of the files read by the stream
MaxContent == 4
MaxNumLines == 2

NL == "\n"

\* str.split('\n'): the pieces between the newlines, at least one piece
RECURSIVE split(_)
split(str) ==
    IF \A i \in 1..Len(str) : str[i] # NL THEN <<str>>
    ELSE LET i == CHOOSE j \in 1..Len(str) :
                      str[j] = NL /\ \A k \in 1..(j - 1) : str[k] # NL
         IN  <<SubSeq(str, 1, i - 1)>> \o split(SubSeq(str, i + 1, Len(str)))

\* array.slice(-n): the last n elements, the whole array when n is 0 (-0 is 0)
\* or when the array is shorter
sliceFromEnd(array, n) ==
    IF n = 0 \/ Len(array) <= n THEN array
    ELSE SubSeq(array, Len(array) - n + 1, Len(array))

\* lines 197-199: const lines = []; let remainder = ''
OpenStream(content) ==
    [state |-> "reading", lines |-> <<>>, remainder |-> <<>>, rest |-> content,
     chunks |-> <<>>, value |-> <<>>]

\* the 'data' handler without the carried remainder
onDataNoRemainder(s, chunk, numLines) ==
    LET parts  == split(chunk)
        pushed == s.lines \o SubSeq(parts, 1, Len(parts) - 1)
    IN  [s EXCEPT !.remainder = parts[Len(parts)],
                  !.lines = IF Len(pushed) > numLines
                            THEN SubSeq(pushed, Len(pushed) - numLines + 1, Len(pushed))
                            ELSE pushed]

\* lines 201-210: the 'data' handler. parts.pop() || '' is the last piece,
\* the empty string included.
onData(s, chunk, numLines) ==
    LET parts  == split(s.remainder \o chunk)
        pushed == s.lines \o SubSeq(parts, 1, Len(parts) - 1)
    IN  [s EXCEPT !.remainder = parts[Len(parts)],
                  !.lines = IF Len(pushed) > numLines
                            THEN SubSeq(pushed, Len(pushed) - numLines + 1, Len(pushed))
                            ELSE pushed]

\* lines 212-217: the 'end' handler
onEnd(s, numLines) ==
    LET pushed == IF s.remainder # <<>> THEN Append(s.lines, s.remainder) ELSE s.lines
    IN  [s EXCEPT !.state = "resolved", !.lines = pushed,
                  !.value = sliceFromEnd(pushed, numLines)]

\* the characters of the files: two letters and the newline
Chars == {"a", "b", NL}

Contents == UNION {[1..n -> Chars] : n \in 0..MaxContent}

TailInit ==
    /\ mode = "tail"
    /\ thresholds = Thresholds
    /\ input \in [content : Contents, numLines : 1..MaxNumLines]
    /\ stream = OpenStream(input.content)
    /\ processedCount = 0
    /\ diagnostics = <<>>
    /\ heap = NoObjects
    /\ defaults = NoObjects
    /\ config = NoObjects
    /\ file = <<>>
    /\ pc = "reading"
    /\ conv = NewConversation
    /\ lastTimestamp = NoTs
    /\ conversations = <<>>
    /\ linesRead = 0
    /\ report = NoReport
    /\ appended = [p \in Paths |-> <<>>]
    /\ monitoringEnabled = FALSE
    /\ watchers = {}
    /\ refreshTimer = FALSE
    /\ sessionData = NoSessions
    /\ activeSession = ""
    /\ lastCheckedFiles = [p \in Paths |-> 0]
    /\ pendingReads = [p \in Paths |-> 0]
    /\ outcome = Quiet

TailUnchanged ==
    UNCHANGED <<mode, batchVars, liveVars, thresholds, input, processedCount,
                diagnostics, heap, defaults, config>>

\* stream.on('data', ...): the stream delivers the next chunk, of any length
OnData ==
    /\ mode = "tail"
    /\ stream.state = "reading"
    /\ \E n \in 1..Len(stream.rest) :
           LET chunk == SubSeq(stream.rest, 1, n)
               s     == onData(stream, chunk, input.numLines)
           IN  stream' = [s EXCEPT !.rest = SubSeq(stream.rest, n + 1, Len(stream.rest)),
                                   !.chunks = Append(stream.chunks, n)]
    /\ TailUnchanged

\* stream.on('end', ...): everything was delivered
OnEnd ==
    /\ mode = "tail"
    /\ stream.state = "reading"
    /\ stream.rest = <<>>
    /\ stream' = onEnd(stream, input.numLines)
    /\ TailUnchanged

\* stream.on('error', reject), line 219: the read fails
OnError ==
    /\ mode = "tail"
    /\ stream.state = "reading"
    /\ stream' = [stream EXCEPT !.state = "rejected"]
    /\ TailUnchanged

NextTail == OnData \/ OnEnd \/ OnError

TailSpec == TailInit /\ [][NextTail]_vars

\* ------------------------------------------------------------------------
\* ConfigManager (part_001): the configuration as objects that can be shared
\* ------------------------------------------------------------------------
\* The objects live in heap, a sequence: a reference is an index, an object a
\* function from its keys to values, a value a scalar or a reference.

Value(v) == [ref |-> 0, val |-> v]
Ref(r)   == [ref |-> r, val |-> ""]

\* a JSON value: a scalar or an object of JSON values
Leaf(v)      == [object |-> FALSE, leaf |-> v, fields |-> <<>>]
Tree(fields) == [object |-> TRUE, leaf |-> "", fields |-> fields]

\* lines 10-45: the defaults table, two of its sections
FactoryDefaults ==
    Tree([alerts  |-> Tree([enabled |-> Leaf("true"),
                            sessionCostThreshold |-> Leaf("2.0")]),
          pricing |-> Tree([customPricing |-> Tree(<<>>),
                            useCachedPricing |-> Leaf("true")])])

\* an object literal, or the result of JSON.parse: fresh objects for a tree
RECURSIVE Alloc(_, _)
RECURSIVE AllocFields(_, _, _, _)
AllocFields(h, tree, keys, obj) ==
    IF keys = {} THEN [heap |-> h, obj |-> obj]
    ELSE LET k == CHOOSE x \in keys : TRUE
             a == Alloc(h, tree.fields[k])
         IN  AllocFields(a.heap, tree, keys \ {k}, (k :> a.value) @@ obj)

Alloc(h, tree) ==
    IF ~tree.object THEN [heap |-> h, value |-> Value(tree.leaf)]
    ELSE LET f == AllocFields(h, tree, DOMAIN tree.fields, <<>>)
         IN  [heap |-> Append(f.heap, f.obj), value |-> Ref(Len(f.heap) + 1)]

\* JSON.stringify(value): the value an object holds, followed through its references
RECURSIVE TreeOf(_, _)
TreeOf(h, value) ==
    IF value.ref = 0 THEN Leaf(value.val)
    ELSE Tree([k \in DOMAIN h[value.ref] |-> TreeOf(h, h[value.ref][k])])

\* { ...object }: a new object with the same values, references included
Spread(h, object) == [heap |-> Append(h, h[object]), ref |-> Len(h) + 1]

\* SecurityUtils.safeMerge(target, source) on objects of the heap,
\* security.js lines 101-129
RECURSIVE safeMergeObjects(_, _, _)
RECURSIVE MergeOwnKeys(_, _, _, _, _)
MergeOwnKeys(h, output, target, source, keys) ==
    IF keys = {} THEN [heap |-> h, obj |-> output]
    ELSE LET key  == CHOOSE x \in keys : TRUE
             rest == keys \ {key}
             sv   == h[source][key]
         IN  IF key \in forbidden
             THEN MergeOwnKeys(h, output, target, source, rest)
             ELSE IF sv.ref # 0 /\ key \in DOMAIN h[target] /\ h[target][key].ref # 0
                  THEN LET m == safeMergeObjects(h, h[target][key].ref, sv.ref)
                       IN  MergeOwnKeys(m.heap, (key :> Ref(m.ref)) @@ output,
                                        target, source, rest)
                  ELSE MergeOwnKeys(h, (key :> sv) @@ output, target, source, rest)

safeMergeObjects(h, target, source) ==
    LET m == MergeOwnKeys(h, h[target], target, source, DOMAIN h[source])
    IN  [heap |-> Append(m.heap, m.obj), ref |-> Len(m.heap) + 1]

\* deepMerge(target, source), lines 123-126, for a parsed file: a source that
\* is not an object leaves the copy of the target
deepMerge(h, target, parsed) ==
    IF parsed.ref = 0 THEN Spread(h, target)
    ELSE safeMergeObjects(h, target, parsed.ref)

\* the objects that can be reached from a set of references
RECURSIVE Reachable(_, _)
Reachable(h, refs) ==
    LET next == refs \cup (UNION {{h[r][k].ref : k \in DOMAIN h[r]} : r \in refs} \ {0})
    IN  IF next = refs THEN refs ELSE Reachable(h, next)

\* garbage collection: the objects that this.defaults and this.config reach,
\* in the order they were allocated; the others can no longer be observed
Collect(h, d, c) ==
    LET live    == Reachable(h, {d, c})
        rank(r) == Cardinality({x \in live : x <= r})
        old(i)  == CHOOSE r \in live : rank(r) = i
        move(v) == IF v.ref = 0 THEN v ELSE Ref(rank(v.ref))
    IN  [heap     |-> [i \in 1..Cardinality(live) |->
                          [k \in DOMAIN h[old(i)] |-> move(h[old(i)][k])]],
         defaults |-> rank(d),
         config   |-> rank(c)]

\* a config file: absent, not JSON, or the JSON it holds
NoFile      == [exists |-> FALSE, parses |-> FALSE, json |-> Leaf("")]
Malformed   == [exists |-> TRUE, parses |-> FALSE, json |-> Leaf("")]
FileOf(json) == [exists |-> TRUE, parses |-> TRUE, json |-> json]

\* saveConfig(config), lines 75-90: what is on disk afterwards
saveConfig(h, object, disk) ==
    IF disk.writable THEN [disk EXCEPT !.file = FileOf(TreeOf(h, Ref(object)))]
    ELSE disk

\* the constructor, lines 7-47, with loadConfig, lines 55-73
Construct(disk) ==
    LET d == Alloc(<<>>, FactoryDefaults)
        Built(c, saved) ==
            LET g == Collect(c.heap, d.value.ref, c.ref)
            IN  [heap |-> g.heap, defaults |-> g.defaults, config |-> g.config,
                 disk |-> saved]
    IN  IF ~disk.file.exists
        THEN LET c == Spread(d.heap, d.value.ref)
             IN  Built(c, saveConfig(d.heap, d.value.ref, disk))
        ELSE IF ~disk.file.parses
             THEN LET c == Spread(d.heap, d.value.ref)
                  IN  Built(c, disk)
             ELSE LET u == Alloc(d.heap, disk.file.json)
                      c == deepMerge(u.heap, d.value.ref, u.value)
                  IN  Built(c, disk)

\* set(key, value), lines 107-119: the walk down the keys and the assignment
RECURSIVE setIn(_, _, _, _)
setIn(h, obj, keys, value) ==
    IF Len(keys) = 1 THEN [h EXCEPT ![obj] = (keys[1] :> Value(value)) @@ h[obj]]
    ELSE LET k == keys[1]
         IN  IF k \notin DOMAIN h[obj] \/ h[obj][k].ref = 0
             THEN LET fresh == Len(h) + 1
                      h1    == [Append(h, <<>>) EXCEPT
                                   ![obj] = (k :> Ref(fresh)) @@ h[obj]]
                  IN  setIn(h1, fresh, Tail(keys), value)
             ELSE setIn(h, h[obj][k].ref, Tail(keys), value)

\* the config files a run may find
UserFiles ==
    { FileOf(Tree([alerts |-> Tree([enabled |-> Leaf("false")])])),
      FileOf(Tree([pricing |-> Tree([useCachedPricing |-> Leaf("false")])])),
      FileOf(Tree([theme |-> Leaf("dark")])),
      FileOf(Leaf("5")) }

ConfigFiles == {NoFile, Malformed} \cup UserFiles

\* the keys and values given to set
SetKeys ==
    { <<"alerts", "enabled">>, <<"alerts">>, <<"pricing", "useCachedPricing">>,
      <<"pricing", "customPricing", "opus">>, <<"theme">> }

SetValues == {"false", "7"}

ConfigInit ==
    /\ mode = "config"
    /\ thresholds = Thresholds
    /\ \E found \in ConfigFiles, writable \in BOOLEAN :
           LET built == Construct([file |-> found, writable |-> writable])
           IN  /\ input = built.disk
               /\ heap = built.heap
               /\ defaults = built.defaults
               /\ config = built.config
    /\ stream = NoStream
    /\ processedCount = 0
    /\ diagnostics = <<>>
    /\ file = <<>>
    /\ pc = "reading"
    /\ conv = NewConversation
    /\ lastTimestamp = NoTs
    /\ conversations = <<>>
    /\ linesRead = 0
    /\ report = NoReport
    /\ appended = [p \in Paths |-> <<>>]
    /\ monitoringEnabled = FALSE
    /\ watchers = {}
    /\ refreshTimer = FALSE
    /\ sessionData = NoSessions
    /\ activeSession = ""
    /\ lastCheckedFiles = [p \in Paths |-> 0]
    /\ pendingReads = [p \in Paths |-> 0]
    /\ outcome = Quiet

ConfigUnchanged ==
    UNCHANGED <<mode, file, pc, conv, lastTimestamp, conversations, linesRead,
                liveVars, thresholds, processedCount, diagnostics, stream>>

\* ConfigManager.set(key, value), lines 107-121
Set ==
    /\ mode = "config"
    /\ \E keys \in SetKeys, value \in SetValues :
           LET h == setIn(heap, config, keys, value)
               g == Collect(h, defaults, config)
           IN  /\ heap' = g.heap
               /\ defaults' = g.defaults
               /\ config' = g.config
               /\ input' = saveConfig(h, config, input)
    /\ report' = [fn |-> "set", value |-> input.writable]
    /\ ConfigUnchanged

\* ConfigManager.resetToDefaults(), lines 132-135
ResetToDefaults ==
    /\ mode = "config"
    /\ LET c == Spread(heap, defaults)
           g == Collect(c.heap, defaults, c.ref)
       IN  /\ heap' = g.heap
           /\ defaults' = g.defaults
           /\ config' = g.config
           /\ input' = saveConfig(c.heap, c.ref, input)
    /\ report' = [fn |-> "resetToDefaults", value |-> input.writable]
    /\ ConfigUnchanged

NextConfig == Set \/ ResetToDefaults

ConfigSpec == ConfigInit /\ [][NextConfig]_vars

Next == NextBatch \/ NextLive

Spec == Init /\ [][Next]_vars

\* ================================================================ claims
\* ---- what the claims say, read off the file's lines
\* An Assistant line that carries both usage and model.
CostBearing(m) ==
    m.valid /\ m.type = "assistant" /\ m.hasMessage /\ m.hasUsage /\ m.model # ""

\* A line that yields no Event: invalid JSON, or one whose processing raises.
Rejected(m) == ~m.valid \/ (m.type = "user" /\ Len(m.text) > 0 /\ ~m.textIsString)

\* a counter of the usage object, zero when the object does not have it
Counted(counter) == IF counter = Absent THEN 0 ELSE counter

EventTokens(m) ==
    Counted(m.usage.input_tokens) + Counted(m.usage.output_tokens)
    + Counted(m.usage.cache_creation_input_tokens) + Counted(m.usage.cache_read_input_tokens)

\* The sum of the costs of the cost-bearing lines at the indices S of f, taken in
\* no particular order.
RECURSIVE CostOverIndices(_, _)
CostOverIndices(f, S) ==
    IF S = {} THEN 0
    ELSE LET i == CHOOSE x \in S : TRUE
         IN  calculateCost(f[i].usage, f[i].model) + CostOverIndices(f, S \ {i})

EventCostSum(f) == CostOverIndices(f, {i \in 1..Len(f) : CostBearing(f[i])})

InParse == pc \in {"reading", "parsed"}

RECURSIVE PairSamples(_, _)
PairSamples(cb, k) ==
    IF k >= Len(cb) THEN <<>>
    ELSE LET a == cb[k].timestamp
             b == cb[k + 1].timestamp
         IN  IF a # NoTs /\ b # NoTs /\ b > a
             THEN <<[num |-> EventTokens(cb[k + 1]), den |-> b - a]>> \o PairSamples(cb, k + 1)
             ELSE PairSamples(cb, k + 1)

StrictlyIncreasing(cb) ==
    /\ \A k \in 1..Len(cb) : cb[k].timestamp # NoTs
    /\ \A k \in 1..(Len(cb) - 1) : cb[k].timestamp < cb[k + 1].timestamp

ParseErrorCount(c) == IF "parseErrors" \in DOMAIN c THEN c.parseErrors ELSE 0

\* C5 (as claimed): every line that is not valid JSON adds exactly 1 to the
\* conversation's parse-error counter.
C5_InvalidLineCounted ==
    InParse => ParseErrorCount(conv) = Cardinality({i \in 1..Len(file) : ~file[i].valid})

\* The last non-empty element of s, <<>> if there is none.
LastTruthy(s) ==
    IF \E i \in 1..Len(s) : Len(s[i]) > 0
    THEN s[CHOOSE i \in 1..Len(s) : Len(s[i]) > 0 /\ \A j \in (i + 1)..Len(s) : Len(s[j]) = 0]
    ELSE <<>>

\* The first non-empty element of s, <<>> if there is none.
FirstTruthy(s) ==
    IF \E i \in 1..Len(s) : Len(s[i]) > 0
    THEN s[CHOOSE i \in 1..Len(s) : Len(s[i]) > 0 /\ \A j \in 1..(i - 1) : Len(s[j]) = 0]
    ELSE <<>>

\* The title by the claimed strict priority over the whole file.
PriorityTitle(f) ==
    LET IsSummary(i) == f[i].valid /\ f[i].type = "summary"
        thread == [i \in 1..Len(f) |->
                      IF IsSummary(i) /\ f[i].hasMetadata THEN f[i].thread_summary ELSE <<>>]
        meta == [i \in 1..Len(f) |->
                      IF IsSummary(i) /\ f[i].hasMetadata THEN f[i].metaSummary ELSE <<>>]
        running == [i \in 1..Len(f) |-> IF IsSummary(i) THEN f[i].summary ELSE <<>>]
        user == [i \in 1..Len(f) |->
                      IF ~Rejected(f[i]) /\ f[i].type = "user" THEN f[i].text ELSE <<>>]
        first == FirstTruthy(user)
        chosen == IF LastTruthy(thread) # <<>> THEN LastTruthy(thread)
                  ELSE IF LastTruthy(meta) # <<>> THEN LastTruthy(meta)
                  ELSE IF LastTruthy(running) # <<>> THEN LastTruthy(running)
                  ELSE IF first # <<>> THEN SubSeq(first, 1, Min(TitleMax, Len(first)))
                  ELSE StrUntitled
        flat == [i \in 1..Len(chosen) |-> IF chosen[i] = "\n" THEN " " ELSE chosen[i]]
    IN  SubSeq(flat, 1, Min(TitleMax, Len(flat)))

\* C6 (as claimed): the title is metadata.thread_summary when any summary event
\* carries one, else metadata.summary, else the running summary, else the first
\* user message, else the fallback; newlines flattened, cut to 100 characters.
C6_TitleByStrictPriority == pc = "parsed" => conv.conversationTitle = PriorityTitle(file)

EventTimestamps(f) ==
    {f[i].timestamp : i \in {j \in 1..Len(f) : ~Rejected(f[j]) /\ f[j].timestamp # NoTs}}

SetMin(S) == CHOOSE x \in S : \A y \in S : x <= y
SetMax(S) == CHOOSE x \in S : \A y \in S : x >= y

ErrorsAnswering(c, n) ==
    LET ids == {c.toolUsage[ToolIndex(c.toolUsage, n)].executions[k].id :
                   k \in 1..Len(c.toolUsage[ToolIndex(c.toolUsage, n)].executions)}
    IN  IF ToolIndex(c.toolUsage, n) = 0 THEN 0
        ELSE Cardinality({e \in 1..Len(c.errors) : c.errors[e].toolUseId \in ids})

\* C8 (as claimed): every error result that answers an invocation of tool T is
\* counted for T, in aggregateToolUsage's totalErrors and in errorsByTool.
C8_ErrorsCountedByTool ==
    LET agg == aggregateToolUsage(conversations)
        byTool == getErrorStats(conversations).errorsByTool
    IN  \A k \in 1..Len(agg) :
            LET n == agg[k].name
                want == SumSeq([i \in 1..Len(conversations) |->
                                   ErrorsAnswering(conversations[i], n)])
            IN  want > 0 => /\ agg[k].totalErrors = want
                            /\ n \in DOMAIN byTool
                            /\ byTool[n] = want

\* ---- live monitoring
\* The cost and the tokens the monitor gives line m.
LiveEventCost(m) == IF ~Rejected(m) /\ CostBearing(m) THEN LineUpdate(m).cost ELSE 0

LiveEventTokens(m) == IF ~Rejected(m) /\ CostBearing(m) THEN LineUpdate(m).tokens ELSE 0

\* C1 (as claimed): however many mutations of a log file are processed, the
\* session's totalCost and totalTokens never exceed the sums over the distinct
\* cost-bearing events of the file: no event is accounted twice.
C1_EventAccountedAtMostOnce ==
    \A s \in DOMAIN sessionData :
        LET f == FileLines(s)
        IN  /\ sessionData[s].totalCost <= SumSeq([i \in 1..Len(f) |-> LiveEventCost(f[i])])
            /\ sessionData[s].totalTokens <= SumSeq([i \in 1..Len(f) |-> LiveEventTokens(f[i])])

\* The burn-rate samples the program holds: of the conversation being parsed, of
\* the parsed conversations and of the live sessions.
StoredSamples ==
    {conv.tokenBurnRate[k] : k \in 1..Len(conv.tokenBurnRate)}
    \cup UNION {{conversations[i].tokenBurnRate[k] :
                    k \in 1..Len(conversations[i].tokenBurnRate)} :
                i \in 1..Len(conversations)}
    \cup UNION {{sessionData[s].tokenBurnRate[k] :
                    k \in 1..Len(sessionData[s].tokenBurnRate)} :
                s \in DOMAIN sessionData}

\* C3: in batch ingestion and in live monitoring every stored burn-rate sample was
\* taken over a strictly positive time delta and has a non-negative rate; equal or
\* decreasing timestamps add no sample.
C3_NoSampleForNonPositiveDelta ==
    \A b \in StoredSamples : b.rate.den > 0 /\ b.rate.num >= 0

\* C3 witness: a live session that has seen an update stamped no later than the
\* one before it, and holds a sample for each strictly later update and no other.
C3_Witness ==
    \E s \in DOMAIN sessionData :
        LET ra == sessionData[s].recentActivity
            later == {k \in 1..(Len(ra) - 1) :
                         ra[k + 1].timestamp > ra[k].timestamp /\ ra[k + 1].tokens > 0}
        IN  /\ Len(ra) = sessionData[s].messages
            /\ \E k \in 1..(Len(ra) - 1) :
                   ra[k + 1].timestamp <= ra[k].timestamp /\ ra[k + 1].tokens > 0
            /\ Len(sessionData[s].tokenBurnRate) = Cardinality(later)

\* C9 (as claimed): a session's stored recentActivity holds at most 100 entries and
\* its stored tokenBurnRate at most a fixed number of samples, taken here as the
\* same 100.
C9_SessionHistoryBounded ==
    \A s \in DOMAIN sessionData :
        /\ Len(sessionData[s].recentActivity) <= RecentActivityMax
        /\ Len(sessionData[s].tokenBurnRate) <= RecentActivityMax

\* C10: a call of stopMonitoring while monitoring is enabled invokes close() on
\* every registered watcher, empties the watchers map, cancels the refresh timer,
\* empties sessionData, resets activeSession and lets no error escape, whichever
\* watchers throw from close(); no periodic-check is emitted while monitoring is
\* disabled.
C10_StopEndsInSameState ==
    [][/\ (monitoringEnabled /\ ~monitoringEnabled' /\ mode' # "exited") =>
            /\ outcome'.handler = "stopMonitoring"
            /\ outcome'.closed = watchers
            /\ watchers' = {}
            /\ ~refreshTimer'
            /\ sessionData' = NoSessions
            /\ activeSession' = ""
            /\ ~outcome'.escaped
            /\ outcome'.emitted = <<"sessions-cleared", "monitoring-stopped">>
       /\ outcome'.handler = "checkForUpdates" => monitoringEnabled']_vars

\* C10 witness: stopMonitoring has returned after close() threw on one of two
\* registered watchers, with both closed.
C10_Witness ==
    /\ outcome.handler = "stopMonitoring"
    /\ Cardinality(outcome.closed) = 2
    /\ Cardinality(outcome.logged) = 1
    /\ watchers = {} /\ ~refreshTimer /\ sessionData = NoSessions

\* A step of handleFileChange that returns: the last handler is handleFileChange
\* and no line was appended in the step.
HandleStep == outcome'.handler = "handleFileChange" /\ appended' = appended /\ mode' # "exited"

\* C11: a read of path p is started only by a notification that finds the file's
\* modification time strictly greater than the one recorded for p (or none
\* recorded), and that notification records the time, sets the active session and
\* emits file-changed; a notification that finds an equal or older time changes
\* no state, emits nothing and starts no read.
C11_ProcessedOnlyWhenMtimeAdvanced ==
    [][/\ \A p \in Paths :
             pendingReads'[p] > pendingReads[p] =>
                 /\ HandleStep
                 /\ lastCheckedFiles[p] = 0 \/ Mtime(p) > lastCheckedFiles[p]
                 /\ lastCheckedFiles'[p] = Mtime(p)
                 /\ activeSession' = p
                 /\ outcome'.emitted = <<"file-changed">>
       /\ (HandleStep /\ \A p \in Paths : pendingReads'[p] = pendingReads[p]) =>
             /\ \A p \in Paths : lastCheckedFiles[p] # 0 /\ Mtime(p) <= lastCheckedFiles[p]
             /\ outcome'.emitted = <<>>
             /\ UNCHANGED <<monitoringEnabled, watchers, refreshTimer, sessionData,
                            activeSession, lastCheckedFiles, pendingReads>>]_vars

\* C11 witness: a second notification for a file whose modification time is the
\* recorded one has been ignored while the read of the first is still pending.
C11_Witness ==
    /\ mode = "live"
    /\ outcome.handler = "handleFileChange"
    /\ outcome.emitted = <<>>
    /\ \E p \in Paths : lastCheckedFiles[p] = Mtime(p) /\ pendingReads[p] = 1

\* C12 (as claimed): the active session is the session updated last: a step that
\* creates or updates session s leaves activeSession = s, so that getActiveSession
\* returns its snapshot.
C12_ActiveSessionIsLastUpdated ==
    [][\A s \in DOMAIN sessionData' :
           (s \notin DOMAIN sessionData \/ sessionData'[s] # sessionData[s]) =>
               activeSession' = s]_vars

\* C13 (as claimed): no failure of live monitoring leaves the notification
\* callback or ends the process.
C13_NoFailureEscapesTheMonitor ==
    /\ mode # "exited"
    /\ outcome.handler \in {"handleFileChange", "processFileUpdate"} => ~outcome.escaped

\* ---------------------------------------------------------------- C14
\* The one-to-one maps of 1..n onto itself.
Orders(n) == {f \in [1..n -> 1..n] : \A i, j \in 1..n : i # j => f[i] # f[j]}

Reordered(convs, f) == [i \in 1..Len(convs) |-> convs[f[i]]]

Entries(s) == {s[i] : i \in 1..Len(s)}

DayTotals(convs) ==
    LET d == aggregateDailyCosts(convs)
    IN  [k \in 1..Len(d) |->
            [date |-> d[k].date, totalCost |-> d[k].totalCost,
             totalTokens |-> d[k].totalTokens,
             conversationCount |-> d[k].conversationCount]]

\* The totals of two lists of conversations are the same: the statistics, the
\* entries per tool, model and project and the sequence of their sort keys, the
\* totals per day and the buckets per hour.
SameTotals(a, b) ==
    LET toolsA == aggregateToolUsage(a)
        toolsB == aggregateToolUsage(b)
        modelsA == aggregateModelUsage(a)
        modelsB == aggregateModelUsage(b)
        projectsA == getProjectStats(a)
        projectsB == getProjectStats(b)
    IN  /\ getTotalStats(a) = getTotalStats(b)
        /\ Entries(toolsA) = Entries(toolsB)
        /\ [k \in 1..Len(toolsA) |-> toolsA[k].totalCount]
             = [k \in 1..Len(toolsB) |-> toolsB[k].totalCount]
        /\ Entries(modelsA) = Entries(modelsB)
        /\ [k \in 1..Len(modelsA) |-> modelsA[k].totalCost]
             = [k \in 1..Len(modelsB) |-> modelsB[k].totalCost]
        /\ Entries(projectsA) = Entries(projectsB)
        /\ [k \in 1..Len(projectsA) |-> projectsA[k].totalCost]
             = [k \in 1..Len(projectsB) |-> projectsB[k].totalCost]
        /\ DayTotals(a) = DayTotals(b)
        /\ aggregateHourlyCosts(a) = aggregateHourlyCosts(b)

\* C14: when analyzeAllConversations has returned, the same conversations in
\* any other order give the same aggregate totals: getTotalStats, the entries
\* per tool, per model and per project, the daily and the hourly buckets; only
\* the order of entries with equal sort keys may differ.
C14_TotalsIndependentOfOrder ==
    (mode = "agg" /\ pc = "done" /\ report = NoReport) =>
        \A f \in Orders(Len(conversations)) :
            SameTotals(conversations, Reordered(conversations, f))

C16_WitnessEmpty ==
    /\ mode = "agg" /\ report.fn = "aggregateHourlyCosts"
    /\ conversations = <<>>

\* ---------------------------------------------------------------- C17
\* the alerts of type token_burn_rate of the last batch
BurnAlerts == SelectSeq(outcome.alerts, LAMBDA a : a.type = "token_burn_rate")

\* the mean of the last five burn samples of session s (of all when there are
\* fewer) is above the threshold t
MeanOfRecentAbove(s, t) ==
    LET n == Len(s.tokenBurnRate)
        recent == SubSeq(s.tokenBurnRate, IF n > 5 THEN n - 4 ELSE 1, n)
        sum == RateSum(recent)
    IN  n > 0 /\ sum.num > t * Len(recent) * sum.den

\* C17: when alerts are enabled and the mean of the five most recent burn
\* samples of the session (of all of them when there are fewer) is above
\* tokenBurnRateThreshold, checkSessionAlerts raises exactly one alert of type
\* token_burn_rate, of severity critical; otherwise it raises none, whatever the
\* last sample is.
C17_BurnAlertOnMeanOfLastFive ==
    (mode = "alert" /\ outcome.handler = "checkSessionAlerts") =>
        IF thresholds.enabled
           /\ MeanOfRecentAbove(sessionData["s1"], thresholds.tokenBurnRateThreshold)
        THEN /\ Len(BurnAlerts) = 1
             /\ BurnAlerts[1].severity = "critical"
             /\ outcome.emitted = <<"alerts">>
        ELSE BurnAlerts = <<>>

\* The alert was raised for a session with more than five samples whose last
\* sample is below the threshold.
C17_Witness ==
    /\ mode = "alert" /\ outcome.handler = "checkSessionAlerts"
    /\ Len(BurnAlerts) = 1
    /\ LET r == sessionData["s1"].tokenBurnRate
       IN  /\ Len(r) > 5
           /\ r[Len(r)].rate.num <= thresholds.tokenBurnRateThreshold * r[Len(r)].rate.den

\* No alert was raised although the last sample is above the threshold and the
\* mean of all samples is too: the five most recent ones are what counts.
C17_WitnessNone ==
    /\ mode = "alert" /\ outcome.handler = "checkSessionAlerts"
    /\ thresholds.enabled
    /\ BurnAlerts = <<>>
    /\ LET r == sessionData["s1"].tokenBurnRate
       IN  /\ Len(r) > 5
           /\ r[Len(r)].rate.num > thresholds.tokenBurnRateThreshold * r[Len(r)].rate.den
           /\ RateSum(r).num > thresholds.tokenBurnRateThreshold * Len(r) * RateSum(r).den

\* ---------------------------------------------------------------- C18
\* Tool t has an execution whose id or parentId is `parent`.
Related(t, parent) ==
    \E j \in 1..Len(t.executions) :
        t.executions[j].id = parent \/ t.executions[j].parentId = parent

\* The tools as they should be after cost-bearing line m: the first related
\* tool has the cost of m added, no other tool is touched.
ToolsAfter(tu, m) ==
    LET related == {i \in 1..Len(tu) : Related(tu[i], m.parentUUID)}
    IN  [i \in 1..Len(tu) |->
            IF i \in related /\ \A h \in related : i <= h
            THEN [tu[i] EXCEPT !.totalCost = @ + calculateCost(m.usage, m.model)]
            ELSE tu[i]]

ToolCostSum(tu) == SumSeq([i \in 1..Len(tu) |-> tu[i].totalCost])

C18_WitnessNoMatch ==
    /\ mode = "batch" /\ pc = "reading" /\ Len(file) > 0
    /\ LET m == file[Len(file)]
       IN  /\ CostBearing(m) /\ m.parentUUID # ""
           /\ Len(conv.toolUsage) = 1
           /\ ~Related(conv.toolUsage[1], m.parentUUID)
           /\ conv.totalCost > 0
           /\ conv.toolUsage[1].totalCost = 0

\* ---------------------------------------------------------------- C19
ComponentSum(t) == t.input + t.output + t.cacheWrite + t.cacheRead

\* C19: for every Assistant event with usage of the file, the total of its
\* UsageTokens is input + output + cacheWrite + cacheRead, an absent counter
\* counting as zero; and after any sequence of events the total of the
\* conversation's totalTokens is the sum of its four component totals.
C19_TokenTotalIsSumOfComponents ==
    /\ \A i \in 1..Len(file) :
          CostBearing(file[i]) =>
              LET t == calculateTokens(file[i].usage)
              IN  /\ t.total = EventTokens(file[i])
                  /\ t.input = Counted(file[i].usage.input_tokens)
                  /\ t.output = Counted(file[i].usage.output_tokens)
                  /\ t.cacheWrite = Counted(file[i].usage.cache_creation_input_tokens)
                  /\ t.cacheRead = Counted(file[i].usage.cache_read_input_tokens)
    /\ conv.totalTokens.total = ComponentSum(conv.totalTokens)
    /\ \A k \in 1..Len(conversations) :
          conversations[k].totalTokens.total = ComponentSum(conversations[k].totalTokens)

\* Two events were accounted, one with absent counters and one with all four
\* counters.
C19_Witness ==
    /\ mode = "batch"
    /\ conv.messageCount = 2
    /\ \E i \in 1..Len(file) :
          CostBearing(file[i]) /\ file[i].usage.input_tokens = Absent
    /\ conv.totalTokens.cacheRead > 0
    /\ conv.totalTokens.cacheWrite > 0
    /\ conv.totalTokens.input > 0

\* ---------------------------------------------------------------- C20
\* the cost of a usage at the default rates
DefaultCost(usage) ==
    LET rates == CLAUDE_PRICING["default"]
    IN  Counted(usage.input_tokens) * rates.input
        + Counted(usage.output_tokens) * rates.output
        + Counted(usage.cache_creation_input_tokens) * rates.cache_write
        + Counted(usage.cache_read_input_tokens) * rates.cache_read

\* a call of calculateCost with a usage and a model that the table does not have
UnknownModelCosted ==
    /\ mode = "pricing"
    /\ report.fn = "calculateCost"
    /\ file[1].usage # NoUsage
    /\ file[1].model \notin DOMAIN CLAUDE_PRICING

\* C20: calculateCost gives a model identifier that is absent from the pricing
\* table the default rates: 1,000,000 input tokens and no others cost exactly
\* 3.00 at the default input rate of 3.00.
C20_UnknownModelCostsAtDefaultRates ==
    UnknownModelCosted =>
        /\ report.value = DefaultCost(file[1].usage)
        /\ file[1].usage = Usage(1000000, 0, 0, 0) => report.value = 3 * UnitsPerDollar

\* The same for the identifiers that are not names of members of Object.prototype.
C20_OrdinaryUnknownModelCostsAtDefaultRates ==
    (UnknownModelCosted /\ file[1].model \notin ObjectPrototype) =>
        /\ report.value = DefaultCost(file[1].usage)
        /\ file[1].usage = Usage(1000000, 0, 0, 0) => report.value = 3 * UnitsPerDollar

\* The scenario of the claim: an unknown model, 1,000,000 input tokens.
C20_Scenario ==
    /\ UnknownModelCosted
    /\ file[1].model = "some-unknown-model"
    /\ file[1].usage = Usage(1000000, 0, 0, 0)
    /\ report.value = 3 * UnitsPerDollar

\* ---------------------------------------------------------------- C21
\* the files among the first n of the listing whose ingestion succeeded
ParsedFiles(n) ==
    LET Succeeded(f) == ~Ingest(f).threw IN SelectSeq(SubSeq(input, 1, n), Succeeded)

\* a diagnostic that quotes no path but the base name of its file
NamesOnlyBaseName(d) == d.path = <<>> \/ d.path = d.file

\* the list holds one conversation per file that parsed, tagged with its directory,
\* and one diagnostic was written per file that did not
OneConversationPerParsedFile ==
    LET parsed == ParsedFiles(processedCount)
    IN  /\ Len(conversations) = Len(parsed)
        /\ \A i \in 1..Len(parsed) :
              /\ conversations[i].projectName = parsed[i].dir
              /\ conversations[i].conversationId = parsed[i].name
        /\ Len(diagnostics) = processedCount - Len(parsed)

\* C21: in analyzeAllConversations a file whose ingestion fails is skipped and
\* the others are still processed: the list holds exactly one conversation per
\* file that parsed, tagged with its directory, and the diagnostic of a skipped
\* file names the base name of the file only, never its full path.
C21_FailedFileSkippedAndNamedByBaseName ==
    mode = "ingest" =>
        /\ OneConversationPerParsedFile
        /\ \A k \in 1..Len(diagnostics) : NamesOnlyBaseName(diagnostics[k])

\* The part of C21 about the list alone.
C21_OneConversationPerParsedFile == mode = "ingest" => OneConversationPerParsedFile

\* The whole listing was processed: four files were skipped and three parsed.
C21_SkippedAndParsed ==
    /\ mode = "ingest"
    /\ pc = "done"
    /\ Len(diagnostics) = 4
    /\ Len(conversations) = 3

\* ---------------------------------------------------------------- C22
\* the directories and the name that an absolute or relative path leads through
ResolvedSegments(p) == SelectSeq(Segments(resolve(p)), Truthy)

\* the resolved path is the resolved base directory or lies inside it
InsideBase(filePath, allowedBase) ==
    LET ps == ResolvedSegments(filePath)
        bs == ResolvedSegments(allowedBase)
    IN  Len(bs) <= Len(ps) /\ SubSeq(ps, 1, Len(bs)) = bs

ValidatePathCalled == mode = "path" /\ report.fn = "validatePath"

\* C22: validatePath returns a path only when the resolved path is the resolved
\* base directory or lies inside it; every path that resolves outside the base
\* directory, a sibling directory whose name begins with the name of the base
\* directory included, is rejected with an error.
C22_OnlyPathsInsideBaseReturned ==
    ValidatePathCalled =>
        (~report.value.threw =>
            /\ InsideBase(input.filePath, input.allowedBase)
            /\ report.value.value = resolve(input.filePath))

\* A path inside the base directory was returned.
C22_Returned ==
    /\ ValidatePathCalled
    /\ ~report.value.threw
    /\ input.filePath = <<"/", "p", "/", ".", "/", "x">>
    /\ report.value.value = <<"/", "p", "/", "x">>

\* C22 for the paths that are not in a sibling directory whose name begins with
\* the name of the base directory.
C22_OnlyPathsInsideBaseOrPrefixedSiblingReturned ==
    ValidatePathCalled =>
        (~report.value.threw =>
            \/ InsideBase(input.filePath, input.allowedBase)
            \/ ResolvedSegments(input.filePath)[1] = <<"p", "q">>)

\* ---------------------------------------------------------------- C23
\* the value has a key named __proto__, constructor or prototype at some depth
RECURSIVE HasForbiddenKey(_)
HasForbiddenKey(v) ==
    /\ v.kind = "object"
    /\ \E key \in DOMAIN v.fields :
          key \in {"__proto__", "constructor", "prototype"} \/ HasForbiddenKey(v.fields[key])

SafeMergeCalled == mode = "merge" /\ report.fn = "safeMerge"

\* C23: the object that safeMerge(target, source) returns has no key named
\* __proto__, constructor or prototype that comes from source, at any nesting
\* depth of source. The targets have no such key, so every one in the result
\* comes from source.
C23_NoForbiddenKeyFromSource == SafeMergeCalled => ~HasForbiddenKey(report.value)

\* C23 for the keys of source itself: no forbidden key at the top of the result.
C23_NoForbiddenKeyAtTop ==
    SafeMergeCalled =>
        DOMAIN report.value.fields \cap {"__proto__", "constructor", "prototype"} = {}

\* A source with a forbidden key at its top was merged and the key was left out.
C23_TopKeyLeftOut ==
    /\ SafeMergeCalled
    /\ input.source = Single("__proto__", Single("a", Scalar(TRUE)))
    /\ input.target = Single("a", Scalar(TRUE))
    /\ report.value = input.target

\* ---------------------------------------------------------------- C24
\* C24: once stopMonitoring has returned, and until monitoring is started again,
\* there is no session, and a tail read that was in flight at the stop creates
\* or updates none and emits neither session-updated nor alerts on completing.
C24_NoSessionWhileStopped ==
    (mode = "live" /\ ~monitoringEnabled) =>
        /\ sessionData = NoSessions
        /\ outcome.handler = "processFileUpdate" => outcome.emitted = <<>>

\* C24 at the return of stopMonitoring itself: the sessions are discarded.
C24_StopDiscardsSessions ==
    (mode = "live" /\ outcome.handler = "stopMonitoring") =>
        sessionData = NoSessions /\ activeSession = ""

\* stopMonitoring returned while a tail read was in flight.
C24_StoppedWithReadInFlight ==
    /\ mode = "live"
    /\ outcome.handler = "stopMonitoring"
    /\ \E p \in Paths : pendingReads[p] > 0

\* ---------------------------------------------------------------- C25
\* the batch of updates that the handler of path p applies
BatchOf(p) == parseRecentUpdates(readLastLines(FileLines(p), NumLines))

\* the last n elements of s
LastOf(s, n) == IF Len(s) > n THEN SubSeq(s, Len(s) - n + 1, Len(s)) ELSE s

\* The step is the whole block of the handler of p: on the session as the step
\* found it, it adds every update of the batch to the counters, appends the batch
\* to recentActivity and truncates it, and emits session-updated.
WholeBlock(p) ==
    LET batch == BatchOf(p)
        before == IF p \in DOMAIN sessionData THEN sessionData[p] ELSE NewSession(p)
        after == sessionData'[p]
        assistants == SelectSeq(batch, LAMBDA u : u.type = "assistant")
    IN  /\ DOMAIN sessionData' = DOMAIN sessionData \cup {p}
        /\ \A q \in DOMAIN sessionData \ {p} : sessionData'[q] = sessionData[q]
        /\ after.totalCost = before.totalCost + SumSeq([i \in 1..Len(batch) |-> batch[i].cost])
        /\ after.totalTokens
              = before.totalTokens + SumSeq([i \in 1..Len(batch) |-> batch[i].tokens])
        /\ after.messages = before.messages + Len(assistants)
        /\ after.recentActivity = LastOf(before.recentActivity \o batch, RecentActivityMax)
        /\ after.lastUpdate = batch[Len(batch)].timestamp
        /\ outcome'.handler = "processFileUpdate"
        /\ outcome'.emitted # <<>>
        /\ outcome'.emitted[1] = "session-updated"

\* C25: the session mutations of different file-update handlers never
\* interleave. Whatever reads are pending, every step that changes sessionData
\* is the whole block of one handler, applied to the sessions as the handler
\* before it left them, or is stopMonitoring or the end of the process
\* discarding the sessions.
C25_SessionBlocksDoNotInterleave ==
    [][ sessionData' # sessionData =>
            \/ sessionData' = NoSessions
            \/ \E p \in Paths : pendingReads'[p] = pendingReads[p] - 1 /\ WholeBlock(p)
      ]_vars

\* A handler has applied its batch while the read of another handler for the
\* same file was pending.
C25_Witness ==
    /\ mode = "live"
    /\ outcome.handler = "processFileUpdate"
    /\ outcome.emitted # <<>>
    /\ \E p \in Paths :
          /\ pendingReads[p] > 0
          /\ p \in DOMAIN sessionData
          /\ Len(sessionData[p].recentActivity) > 1

\* ---------------------------------------------------------------- C26
\* The interval of the sample is the time since the cost-bearing event of the
\* log that precedes the sample's event.
SinceLastCostBearing(f, sample) ==
    \E i \in 1..Len(f) :
        /\ CostBearing(f[i])
        /\ f[i].timestamp = sample.timestamp - sample.rate.den
        /\ \A j \in 1..Len(f) :
              CostBearing(f[j]) =>
                  ~(f[j].timestamp > f[i].timestamp /\ f[j].timestamp < sample.timestamp)

\* C26: in live mode the burn-rate sample of a cost-bearing update is computed
\* from the time elapsed since the previous cost-bearing event of the session;
\* the events without usage between two cost-bearing events neither shorten nor
\* reset that interval.
C26_IntervalSincePreviousCostBearing ==
    \A s \in DOMAIN sessionData :
        \A k \in 1..Len(sessionData[s].tokenBurnRate) :
            SinceLastCostBearing(FileLines(s), sessionData[s].tokenBurnRate[k])

\* C26 for the logs in which every event that parses is cost-bearing.
C26_IntervalWhenAllCostBearing ==
    \A s \in DOMAIN sessionData :
        (\A i \in 1..Len(FileLines(s)) : CostBearing(FileLines(s)[i]) \/ Rejected(FileLines(s)[i]))
            => \A k \in 1..Len(sessionData[s].tokenBurnRate) :
                  SinceLastCostBearing(FileLines(s), sessionData[s].tokenBurnRate[k])

\* A session holds samples taken between cost-bearing events that follow each other.
C26_SamplesTaken ==
    \E s \in DOMAIN sessionData :
        /\ Len(sessionData[s].tokenBurnRate) > 1
        /\ \A i \in 1..Len(FileLines(s)) : CostBearing(FileLines(s)[i])

\* ---------------------------------------------------------------- C27
\* the step reads a line of the log that is rejected
ReadsRejectedLine ==
    /\ mode' = "batch"
    /\ Len(file') = Len(file) + 1
    /\ Rejected(file'[Len(file')])

\* C27: a log line that is rejected during batch ingestion, wherever its
\* processing raises, leaves the conversation exactly as it was before the line.
C27_RejectedLineChangesNothing ==
    [][ReadsRejectedLine => conv' = conv /\ lastTimestamp' = lastTimestamp]_vars

\* C27 for the lines that JSON.parse rejects.
C27_UnparsableLineChangesNothing ==
    [][(ReadsRejectedLine /\ ~file'[Len(file')].valid)
          => conv' = conv /\ lastTimestamp' = lastTimestamp]_vars

\* A line that JSON.parse rejects was read after a line that was accounted.
C27_UnparsableLineRead ==
    /\ mode = "batch"
    /\ Len(file) > 1
    /\ ~file[Len(file)].valid
    /\ conv.messageCount > 0

\* ---------------------------------------------------------------- C28
\* the positions of the newlines of a file
NewlinesOf(content) == {i \in 1..Len(content) : content[i] = NL}

\* the number of lines of a file: one for each newline, and one more for
\* what follows the last newline when the file does not end with one
LineCount(content) ==
    Cardinality(NewlinesOf(content))
      + (IF content # <<>> /\ content[Len(content)] # NL THEN 1 ELSE 0)

\* the position before the first character of line k of a file
LineStart(content, k) ==
    IF k = 1 THEN 0
    ELSE CHOOSE i \in NewlinesOf(content) :
             Cardinality({j \in NewlinesOf(content) : j <= i}) = k - 1

\* the position after the last character of line k of a file
LineEnd(content, k) ==
    IF k > Cardinality(NewlinesOf(content)) THEN Len(content) + 1
    ELSE CHOOSE i \in NewlinesOf(content) :
             Cardinality({j \in NewlinesOf(content) : j <= i}) = k

FileLine(content, k) ==
    SubSeq(content, LineStart(content, k) + 1, LineEnd(content, k) - 1)

\* the last min(n, L) lines of a file of L lines, in file order
LastLinesOfFile(content, n) ==
    LET L == LineCount(content)
        m == Min(n, L)
    IN  [k \in 1..m |-> FileLine(content, L - m + k)]

\* C28: readLastLines(file, n) resolves with exactly the last min(n, L) lines
\* of a file of L lines, in file order, however the stream is split into
\* chunks, and the line buffer holds at most n lines after each chunk.
C28_LastLinesForEverySplit ==
    mode = "tail" =>
        /\ stream.state = "resolved"
               => stream.value = LastLinesOfFile(input.content, input.numLines)
        /\ stream.state = "reading" => Len(stream.lines) <= input.numLines

\* A file of more than n lines without a trailing newline was delivered in
\* several chunks, one of them ending in the middle of a line, and resolved.
C28_Witness ==
    /\ mode = "tail"
    /\ stream.state = "resolved"
    /\ LineCount(input.content) > input.numLines
    /\ Len(stream.value) = input.numLines
    /\ input.content[Len(input.content)] # NL
    /\ Len(stream.chunks) > 1
    /\ input.content[stream.chunks[1]] # NL

\* ---------------------------------------------------------------- C29
ResetReturned == mode = "config" /\ report.fn = "resetToDefaults"

\* C29: after any sequence of set calls, resetToDefaults restores every
\* setting to its factory default value, whatever the configuration was
\* initialised from.
C29_ResetRestoresFactoryDefaults ==
    ResetReturned => TreeOf(heap, Ref(config)) = FactoryDefaults

\* C29 for the defaults table as it is when resetToDefaults is called.
C29_ResetCopiesDefaultsTable ==
    ResetReturned => TreeOf(heap, Ref(config)) = TreeOf(heap, Ref(defaults))

\* resetToDefaults returned with a defaults table that set calls have changed.
C29_ResetAfterSet ==
    /\ ResetReturned
    /\ TreeOf(heap, Ref(defaults)) # FactoryDefaults

\* ---------------------------------------------------------------- C30
\* parseRecentUpdates returned the update of an Assistant line with a usage
\* and a model
LiveLineCosted ==
    /\ mode = "pricing"
    /\ report.fn = "parseRecentUpdates"
    /\ Len(report.value) = 1
    /\ file[1].type = "assistant"
    /\ file[1].hasUsage
    /\ file[1].model # ""

\* C30: for the same Assistant log line, live monitoring computes the same
\* cost and the same token total as batch ingestion with the built-in pricing
\* table, for every model identifier, under the default configuration.
C30_LiveEqualsBatch ==
    LiveLineCosted =>
        /\ report.value[1].cost = calculateCost(file[1].usage, file[1].model)
        /\ report.value[1].tokens = calculateTokens(file[1].usage).total

\* C30 for the token total, and for the cost of the models that the built-in
\* table prices at the default rates or does not have.
C30_TokensEqualAndDefaultRatedCostEqual ==
    LiveLineCosted =>
        /\ report.value[1].tokens = calculateTokens(file[1].usage).total
        /\ (file[1].model \notin DOMAIN CLAUDE_PRICING
              \/ CLAUDE_PRICING[file[1].model] = CLAUDE_PRICING["default"])
             => report.value[1].cost = calculateCost(file[1].usage, file[1].model)

\* The line of an unknown model with tokens of every kind went through both.
C30_UnknownModelCompared ==
    /\ LiveLineCosted
    /\ file[1].model = "some-unknown-model"
    /\ file[1].usage = Usage(1000000, 1000, 500, 200)
    /\ report.value[1].cost = calculateCost(file[1].usage, file[1].model)
    /\ report.value[1].cost > 0

====
